---------------------------- MODULE Spec2Model ----------------------------
(***************************************************************************)
(* A model of python/ray/worker.py: the Worker object, its task loop       *)
(* (_wait_for_and_process_task, _process_task, the failure handler), the   *)
(* object access path (put_object, retrieve_and_deserialize, get_object)   *)
(* and the module-level get / put / wait.                                  *)
(*                                                                         *)
(* The object store, the raylet client and the control plane are not part  *)
(* of worker.py; they appear here through the effect of each call the      *)
(* worker makes on them.                                                   *)
(*                                                                         *)
(* Specifications:                                                         *)
(*   SpecLoop    a worker and the tasks the raylet hands to it             *)
(*   SpecActor   a worker that becomes an actor with its first task        *)
(*   SpecStore   programs calling put and get (driver or task body)        *)
(*   SpecDriver  a driver calling put, get and wait, LOCAL_MODE included   *)
(*   SpecWait    programs calling wait in any mode                         *)
(*   SpecThreads a driver whose threads call put concurrently              *)
(*   SpecSubmit  a driver calling submit_task                              *)
(*   SpecCalls   a worker running tasks of a function with max_calls       *)
(*   SpecSession a driver calling init, shutdown and                       *)
(*               run_function_on_all_workers                               *)
(*   SpecExport  several drivers calling run_function_on_all_workers       *)
(*   SpecPutObject a driver calling Worker.put_object                      *)
(*   SpecPut     programs calling put and Worker.put_object in any mode    *)
(*   SpecGet     a driver calling get on objects that arrive meanwhile     *)
(*   SpecVersion a driver or worker whose version check fails in connect   *)
(*   SpecSeed    driver sessions connected with or without object_id_seed  *)
(*   SpecRace    a worker whose threads call submit_task                   *)
(*   SpecStart   a worker whose threads call put and submit_task           *)
(*   SpecGetThreads  a driver whose threads call get_object                *)
(*   SpecGetThreadsLive  the same under fair scheduling, the objects       *)
(*               arriving                                                  *)
(*   SpecLock    a worker, its import thread and the execution lock        *)
(*   SpecBlocked a driver or worker whose threads call get_object and wait *)
(*   SpecRetry   threads in retrieve_and_deserialize on a missing class    *)
(*   SpecRegister  a driver calling Worker.store_and_register              *)
(*   SpecRegisterLive  the same under fair scheduling                      *)
(*   SpecContexts  a driver whose threads call get_serialization_context   *)
(*   SpecReinit  a driver calling init again after a connect that raised   *)
(*   SpecSubmitGet  a driver of which one thread waits in get_object and   *)
(*               another calls submit_task                                 *)
(*   SpecSubmitGetLive  the same under fair scheduling                     *)
(*   SpecListener  a driver's error listener thread                        *)
(*   SpecErrors  a driver's error printer thread and its gets              *)
(*   SpecErrorsLive  the same under fair scheduling                        *)
(***************************************************************************)
EXTENDS Integers, Sequences, FiniteSets, TLC

(***************************************************************************)
(* Bounds of the model.                                                    *)
(***************************************************************************)
\* tasks the raylet hands to one worker process
MaxTasks == 2
\* tasks the raylet hands to one actor, its creation task included
MaxActorTasks == 3
\* length of the id lists passed to get and wait
MaxLen == 2
\* objects one process stores with put
MaxPuts == 2
\* threads of one process that call put
NumThreads == 2
\* put calls the threads of one process start
MaxThreadPuts == 3
\* tasks the raylet hands to a worker that runs a function with max_calls
MaxCountedTasks == 3
\* the max_calls of that function
MaxCalls == 2
\* calls of init, shutdown and run_function_on_all_workers by one driver
MaxSessionCalls == 5
\* drivers that export functions to one control plane
NumDrivers == 3
\* calls of run_function_on_all_workers the drivers make in all
MaxExportCalls == 4
\* error messages published to the drivers' channel
MaxMessages == 2
\* the last second of the clock
MaxTime == 15
\* get calls of a driver that raise a RayTaskError
MaxRaises == 1
\* calls of submit_task by one process
MaxSubmits == 2
\* calls of get_serialization_context by one thread
MaxContextCalls == 2
\* calls of submit_task by one thread other than the main one
MaxThreadSubmits == 1
\* calls of get_object by one thread
MaxThreadGets == 2
\* back-offs of retrieve_and_deserialize in one process
MaxBackoffs == 2
\* imports of the import thread
MaxImports == 1
\* classes without a serializer in one value given to store_and_register
MaxClasses == 3
\* the depth argument of store_and_register
MaxDepth == 3
\* rounds of the fetch loop in one call of get_object
MaxFetches == 2
\* entries of a resources dictionary
MaxResources == 2
\* driver sessions of one process that are logged
MaxSessions == 2
\* calls of put and submit_task logged in one session
MaxLogged == 2

(***************************************************************************)
(* Modes (worker.py:47-49); the mode of a Worker before connect is None.   *)
(***************************************************************************)
SCRIPT_MODE == "SCRIPT_MODE"
WORKER_MODE == "WORKER_MODE"
LOCAL_MODE == "LOCAL_MODE"
None == "None"

(***************************************************************************)
(* Identifiers.  A task id is a pair; NIL_ID stands for the 20 0xFF bytes. *)
(* Object ids are triples <<kind, task id, index>>.                        *)
(***************************************************************************)
NIL_ID == <<"NIL", 0>>
NIL_ACTOR_ID == NIL_ID
TaskID(n) == <<"task", n>>
DriverTaskID == <<"driver_task", 0>>
\* the random task id a driver takes when it connects, c connections having
\* been made by the process before
DriverTaskOf(c) == <<"driver_task", c>>
DriverID(n) == <<"driver", n>>
ActorID(n) == <<"actor", n>>
\* the drivers whose tasks reach the worker
Drivers == {DriverID(1), DriverID(2)}

\* a seed of the ids of a driver, and the absence of one
Seed(n) == <<"seed", n>>
NoSeed == <<"None", 0>>
\* the bytes numpy draws after np.random.seed(object_id_seed)
SeededID(object_id_seed) == <<"seeded", object_id_seed[2]>>
\* a number for each kind of task id, and one for each task id
KindCode(kind) ==
    CASE kind = "NIL" -> 0
      [] kind = "task" -> 1
      [] kind = "driver_task" -> 2
      [] kind = "seeded" -> 3
      [] OTHER -> 4
IDCode(id) == KindCode(id[1]) * 10 + id[2]
\* Task.task_id(): the id of a task is derived from the id of its parent
\* task and the parent's task_index at the submission
Task_task_id(parent_task_id, parent_counter) ==
    <<"derived", IDCode(parent_task_id) * 10 + parent_counter>>
\* raylet_client.compute_put_id(task_id, put_index)
compute_put_id(task_id, put_index) == <<"put", task_id, put_index>>
\* the i-th return object id of a task
ReturnID(task_id, i) == <<"return", task_id, i>>
\* objects produced by other processes of the cluster
ExternalID(j) == <<"external", NIL_ID, j>>
ExternalIDs == {ExternalID(1), ExternalID(2)}

(***************************************************************************)
(* Python values, as far as the worker distinguishes them.                 *)
(*   "val"    a value pyarrow serializes                                   *)
(*   "typeerr" a value whose first serialization raises TypeError and that *)
(*            serializes once its class is registered with pickle          *)
(*   "oid"    a ray.ObjectID                                               *)
(*   "handle" a ray.actor.ActorHandle                                      *)
(*   "err"    a RayTaskError (function_name fn, traceback_str tb)          *)
(*   "bad"    bytes in the store that pyarrow rejects with ArrowInvalid    *)
(*   "na"     plasma.ObjectNotAvailable                                    *)
(***************************************************************************)
Value(k, n) == [k |-> k, fn |-> "", tb |-> "", n |-> n]
RayTaskError(function_name, traceback_str) ==
    [k |-> "err", fn |-> function_name, tb |-> traceback_str, n |-> 0]
ObjectNotAvailable == Value("na", 0)
BadBytes == Value("bad", 0)
AnObjectID == Value("oid", 0)
AnActorHandle == Value("handle", 0)
IsRayTaskError(v) == v.k = "err"
IsObjectID(v) == v.k = "oid"
IsActorHandle(v) == v.k = "handle"

\* what user code passes to put
PutValues == {Value("val", 1), Value("val", 2), Value("typeerr", 1), AnObjectID}
\* what a task body returns for one return slot
OutputValues == {Value("val", 1), AnObjectID, AnActorHandle}
\* what other processes leave in the store under an external id
UpstreamFailure == RayTaskError("upstream", "upstream traceback")
ExternalValues == {Value("val", 1), UpstreamFailure, BadBytes}

\* retrieve_and_deserialize's substitute for every requested id on ArrowInvalid
invalid_error ==
    RayTaskError("<unknown>", "Invalid return value: likely worker died or was killed")

(***************************************************************************)
(* Sequence helpers.                                                       *)
(***************************************************************************)
Range(s) == {s[i] : i \in DOMAIN s}
SeqsUpTo(S, n) == UNION {[1..m -> S] : m \in 0..n}
Min(a, b) == IF a < b THEN a ELSE b
Max(a, b) == IF a > b THEN a ELSE b


(***************************************************************************)
(* The per-process object access state that the pure operators below       *)
(* transform: the plasma store (object id -> stored value), the worker's   *)
(* serialization_context_map (driver id -> classes registered with pickle) *)
(* and the set of external clients the call contacted.                     *)
(***************************************************************************)
Env(store, ctx, clients) == [store |-> store, ctx |-> ctx, clients |-> clients]

\* Worker.get_serialization_context: the context is created on first use
\* (_initialize_serialization registers the built-in types through
\* run_function_on_all_workers, which writes to the control plane).
get_serialization_context(e, driver_id) ==
    IF driver_id \in DOMAIN e.ctx
    THEN e
    ELSE [e EXCEPT !.ctx = driver_id :> {} @@ e.ctx,
                   !.clients = e.clients \cup {"redis"}]

\* register_custom_serializer(cls, use_pickle=True) for the class of value
register_custom_serializer(e, driver_id, value) ==
    LET e1 == get_serialization_context(e, driver_id)
    IN  [e1 EXCEPT !.ctx[driver_id] = @ \cup {value.k},
                   !.clients = @ \cup {"redis"}]

\* Worker.store_and_register: one plasma_client.put under the driver's
\* serialization context.  Serialization comes first (TypeError for a class
\* that needs pickle and is not registered), then the store creates the
\* object and refuses an id it already holds.
store_and_register(e, driver_id, object_id, value) ==
    LET e1 == get_serialization_context(e, driver_id)
        e2 == [e1 EXCEPT !.clients = @ \cup {"store"}]
    IN  IF value.k = "typeerr" /\ value.k \notin e2.ctx[driver_id]
        THEN [env |-> e2, exc |-> "TypeError"]
        ELSE IF object_id \in DOMAIN e2.store
        THEN [env |-> e2, exc |-> "PlasmaObjectExists"]
        ELSE [env |-> [e2 EXCEPT !.store = object_id :> value @@ e2.store],
              exc |-> "none"]

\* variant: an ObjectID is stored like any other value
put_object_AnyValue(e, driver_id, object_id, value) ==
    LET r == store_and_register(e, driver_id, object_id, value)
    IN  CASE r.exc = "PlasmaObjectExists" -> [env |-> r.env, exc |-> "none"]
          [] r.exc = "TypeError" ->
               store_and_register(
                   register_custom_serializer(r.env, driver_id, value),
                   driver_id, object_id, value)
          [] OTHER -> r

\* Worker.put_object
put_object(e, driver_id, object_id, value) ==
    IF IsObjectID(value)
    THEN [env |-> e, exc |-> "Exception"]
    ELSE LET r == store_and_register(e, driver_id, object_id, value)
         IN  CASE r.exc = "PlasmaObjectExists" -> [env |-> r.env, exc |-> "none"]
               [] r.exc = "TypeError" ->
                    store_and_register(
                        register_custom_serializer(r.env, driver_id, value),
                        driver_id, object_id, value)
               [] OTHER -> r

\* Worker._store_outputs_in_object_store, from position i on
RECURSIVE StoreFrom(_, _, _, _, _)
StoreFrom(e, driver_id, object_ids, outputs, i) ==
    IF i > Len(object_ids)
    THEN [env |-> e, exc |-> "none"]
    ELSE IF i > Len(outputs)
    THEN [env |-> e, exc |-> "IndexError"]
    ELSE IF IsActorHandle(outputs[i])
    THEN [env |-> e, exc |-> "Exception"]
    ELSE LET r == put_object(e, driver_id, object_ids[i], outputs[i])
         IN  IF r.exc # "none"
             THEN r
             ELSE StoreFrom(r.env, driver_id, object_ids, outputs, i + 1)

_store_outputs_in_object_store(e, driver_id, object_ids, outputs) ==
    StoreFrom(e, driver_id, object_ids, outputs, 1)

\* variant: only the objects whose bytes are invalid become failures
retrieve_and_deserialize_OnlyInvalid(e, object_ids) ==
    [i \in DOMAIN object_ids |->
        IF object_ids[i] \notin DOMAIN e.store THEN ObjectNotAvailable
        ELSE IF e.store[object_ids[i]] = BadBytes THEN invalid_error
        ELSE e.store[object_ids[i]]]

\* Worker.retrieve_and_deserialize: one plasma get of the listed ids.  Ids
\* the store does not hold come back as ObjectNotAvailable; if the bytes of
\* any fetched object are invalid the call answers invalid_error for every
\* requested id.
retrieve_and_deserialize(e, object_ids) ==
    LET got == [i \in DOMAIN object_ids |->
                   IF object_ids[i] \in DOMAIN e.store
                   THEN e.store[object_ids[i]]
                   ELSE ObjectNotAvailable]
    IN  IF \E i \in DOMAIN got : got[i] = BadBytes
        THEN [i \in DOMAIN object_ids |-> invalid_error]
        ELSE got


(***************************************************************************)
(* Exceptions.  None of the code below looks at an exception beyond its    *)
(* class and identity, so an exception is the record of where it was       *)
(* raised and for which task; none_error stands for "no exception".        *)
(***************************************************************************)
Error(type, site, task_id) == [type |-> type, site |-> site, task |-> task_id]
none_error == Error("none", "", NIL_ID)

(***************************************************************************)
(* Tasks, as the raylet hands them to the worker.  num_returns counts the  *)
(* return values of the function; an actor task (creation or method) has   *)
(* one more return id, the dummy object, last in task.returns().           *)
(***************************************************************************)
ArgID(object_id) == [ref |-> TRUE, id |-> object_id, v |-> ObjectNotAvailable]
ArgValue(v) == [ref |-> FALSE, id |-> ExternalID(0), v |-> v]

IsActorTask(t) == t.actor_id # NIL_ACTOR_ID \/ t.actor_creation_id # NIL_ACTOR_ID

\* task.returns()
TaskReturns(t) ==
    [i \in 1..(t.num_returns + IF IsActorTask(t) THEN 1 ELSE 0) |->
        ReturnID(t.task_id, i)]

\* return_object_ids after the dummy id has been popped (worker.py:782-785)
return_object_ids(t) ==
    IF IsActorTask(t)
    THEN SubSeq(TaskReturns(t), 1, Len(TaskReturns(t)) - 1)
    ELSE TaskReturns(t)

dummy_return_id(t) == TaskReturns(t)[Len(TaskReturns(t))]

NoTask ==
    [task_id |-> NIL_ID, driver_id |-> NIL_ID, function_name |-> "",
     actor_id |-> NIL_ACTOR_ID, actor_creation_id |-> NIL_ACTOR_ID,
     arguments |-> <<>>, num_returns |-> 0]

\* argument lists of the tasks of the model
ArgLists ==
    { <<>>,
      <<ArgID(ExternalID(1))>>,
      <<ArgValue(Value("val", 1)), ArgID(ExternalID(2))>>,
      <<ArgID(ExternalID(1)), ArgID(ExternalID(2))>> }

\* The n-th task a worker receives.  A worker that is no actor yet gets
\* plain tasks or an actor creation task (whose function is the class's
\* __init__); a worker that is an actor gets only methods of that actor.
PossibleTasks(n, worker_actor_id) ==
    { [task_id |-> TaskID(n), driver_id |-> d, function_name |-> f[1],
       actor_id |-> f[2], actor_creation_id |-> f[3],
       arguments |-> a, num_returns |-> k] :
        d \in Drivers, a \in ArgLists, k \in 0..2,
        f \in IF worker_actor_id = NIL_ACTOR_ID
              THEN { <<"f", NIL_ACTOR_ID, NIL_ACTOR_ID>>,
                     <<"__init__", NIL_ACTOR_ID, ActorID(1)>> }
              ELSE { <<"method", worker_actor_id, NIL_ACTOR_ID>>,
                     <<"__ray_terminate__", worker_actor_id, NIL_ACTOR_ID>> } }

\* execution_info.max_calls of a remote function: "limited" stands for a
\* function declared with max_calls, every other function (and every actor
\* method) has max_calls = 0
FunctionMaxCalls(function_name) ==
    IF function_name = "limited" THEN MaxCalls ELSE 0

\* The n-th task of a worker that runs plain tasks of the functions
\* "limited" and "f".
CountedTasks(n) ==
    { [task_id |-> TaskID(n), driver_id |-> d, function_name |-> f,
       actor_id |-> NIL_ACTOR_ID, actor_creation_id |-> NIL_ACTOR_ID,
       arguments |-> a, num_returns |-> 1] :
        d \in Drivers, f \in {"limited", "f"},
        a \in {<<>>, <<ArgID(ExternalID(1))>>} }

\* what a task body hands back for k return values: with one return value
\* the result is wrapped into a 1-tuple (worker.py:838-839), otherwise the
\* body's result is indexed as it is, and may be too short.
PossibleOutputs(k) ==
    IF k = 1 THEN [1..1 -> OutputValues] ELSE SeqsUpTo(OutputValues, k)

(***************************************************************************)
(* State.                                                                  *)
(***************************************************************************)
VARIABLES
    \* Worker fields
    connected, mode, task_driver_id, current_task_id, task_index, put_index,
    actor_id, actor_init_error, serialization_context_map,
    \* the plasma store; the raylet's view of this process: the task ids it
    \* takes to be blocked and the object ids it was asked to fetch
    store, blocked, requested,
    \* the main thread: its position, the task in hand, the arguments
    \* fetched so far and the outputs of the body
    pc, task, arguments, outputs,
    \* the get_object call in progress
    go,
    \* number of tasks received so far
    ntasks,
    \* history: what has happened to the task in hand, the (id, value) pairs
    \* put has returned, the last finished call of put, get or wait
    tlog, puts, last,
    \* the threads of the process inside put: the position of each, and
    \* the history of the put calls that have returned or raised
    threads, tputs,
    \* the serialization contexts as objects: the number made so far and at
    \* the last disconnect, the context the map holds for each driver id,
    \* the driver ids for which one was made and the contexts that
    \* get_serialization_context has returned since the last disconnect,
    \* and the position of each thread inside get_serialization_context
    contexts,
    \* the tasks handed to raylet_client.submit_task, the number of
    \* submit_task calls made and the record of the last one
    submitted, nsubmits, lastSubmit,
    \* the function manager's execution counters, (driver, function) -> count
    task_counter,
    \* the process's clients of the raylet and of the plasma store:
    \* "absent", "connected" or "disconnected"
    raylet_client, plasma_client,
    \* Worker.cached_functions_to_run; worker.redis_client ("absent" or
    \* "connected"); the control plane, as far as functions to run go; the
    \* functions this process has run locally; the connections it has made;
    \* the calls of plasma_client.disconnect it has made
    cached_functions_to_run, redis_client, redis, ran, connections,
    plasma_disconnects,
    \* the last call of init, shutdown or run_function_on_all_workers
    lastSession,
    \* the drivers of one cluster inside run_function_on_all_workers: the
    \* position of each, the function in hand, and what each has done so far
    exporters,
    \* the last call of Worker.put_object made from outside put and the
    \* task loop
    lastPutObject,
    \* time.time(), in seconds
    now,
    \* the error table of the control plane, and the messages of its channel
    \* that the driver's subscription has received and not yet read
    error_table, pubsub, npublished,
    \* the driver's listener and printer threads, the queue between them,
    \* and the log of what they printed and suppressed
    listener, printer, task_error_queue, elog,
    \* the module's last_task_error_raise_time, and the times at which get
    \* has raised a RayTaskError
    last_task_error_raise_time, raise_times,
    \* the driver sessions of the process: for each connect in SCRIPT_MODE
    \* its object_id_seed, the driver task id it took and the calls of put
    \* and submit_task made since, with the ids they returned
    sessions,
    \* Worker.state_lock (worker.py:171): the thread that holds it, or "free"
    state_lock,
    \* the threads other than the main one that call submit_task: where each
    \* is in the call, the task_index and driver id it took, the calls it
    \* has made and what the last one raised
    subs,
    \* the threads that call get_object, the main one being thread 1: where
    \* each is in the call, its lists, and what it has asked of the raylet
    \* in this call (blocking fetches, the task ids given with them, calls
    \* of notify_unblocked, the task id given with the last, and which of
    \* the two kinds of request came last)
    gets,
    \* Worker.lock (worker.py:1994), the execution lock: "free", or who took
    \* it last (the main loop, the import thread, another thread)
    lock,
    \* the import thread: whether it is importing, with the lock held, and
    \* the imports it has finished
    import_thread,
    \* the back-offs of retrieve_and_deserialize on a missing class: where
    \* the thread other than the main one is in its back-off, the back-offs
    \* begun by both threads, and what release raised in the other thread
    backoff

workerVars == <<connected, mode, task_driver_id, current_task_id, task_index,
                put_index, actor_id, actor_init_error>>
objectVars == <<serialization_context_map, store>>
loopVars == <<pc, task, arguments, outputs, ntasks, tlog>>
apiVars == <<puts, last>>
rayletVars == <<blocked, requested>>
coreVars == <<workerVars, objectVars, loopVars, apiVars, go, rayletVars>>
threadVars == <<threads, tputs, contexts>>
submitVars == <<submitted, nsubmits, lastSubmit>>
countVars == <<task_counter>>
clientVars == <<raylet_client, plasma_client>>
exportVars == <<cached_functions_to_run, redis_client, redis, ran>>
sessionVars == <<exportVars, connections, plasma_disconnects>>
messageVars == <<now, error_table, pubsub, npublished, task_error_queue, elog>>
errorThreads == <<listener, printer>>
raiseVars == <<last_task_error_raise_time, raise_times>>
errorVars == <<messageVars, errorThreads, raiseVars>>
otherVars == <<lastPutObject, now, task_error_queue, elog, raiseVars>>
\* the variables of locks and of threads that call get and submit_task
lockVars == <<lock, import_thread, backoff>>
concRest == <<state_lock, subs, gets, lockVars>>
\* the groups below without those of the threads and locks
sysButConc == <<threadVars, submitVars, countVars, clientVars, sessionVars,
                lastSession, exporters, lastPutObject, errorVars>>
concVars == <<sessions, concRest>>
\* what put and submit_task leave alone of the groups below
sysButLog == <<threadVars, submitVars, countVars, clientVars, sessionVars,
               lastSession, exporters, lastPutObject, errorVars, concRest>>
notSubmitButLog == <<threadVars, countVars, clientVars, sessionVars,
                     lastSession, exporters, lastPutObject, errorVars,
                     concRest>>
sysVars == <<threadVars, submitVars, countVars, clientVars, sessionVars,
             lastSession, exporters, lastPutObject, errorVars, concVars>>
\* what put in a thread, and what submit_task, leave alone of the above
notThreads == <<submitVars, countVars, clientVars, sessionVars, lastSession,
                exporters, lastPutObject, errorVars, concVars>>
notSubmit == <<threadVars, countVars, clientVars, sessionVars, lastSession,
               exporters, lastPutObject, errorVars, concVars>>
vars == <<coreVars, sysVars>>

\* The history of the task in hand: whether argument retrieval began,
\* whether the body was invoked, the exception handed to the failure
\* handler, the error events pushed to drivers, and whether _process_task
\* has returned.
NoLog ==
    [fetched |-> FALSE, invoked |-> FALSE, failure |-> none_error,
     pushed |-> <<>>, returned |-> FALSE]

\* the get_object call record when no call is in progress
GoOff == [pc |-> "off", caller |-> "", ids |-> <<>>, final |-> <<>>,
          unready |-> <<>>, task |-> NIL_ID, clients |-> {}]

NoCall == [op |-> "", mode |-> None, ids |-> <<>>, num |-> 0, res |-> <<>>,
           rest |-> <<>>, exc |-> "none", clients |-> {}, waits |-> 0]

\* a thread that is not inside get_object and has not called it
NoGet == [pc |-> "out", ids |-> <<>>, final |-> <<>>, unready |-> <<>>,
          task |-> <<"NIL", 0>>, missing |-> FALSE, fetches |-> 0,
          fetch_tasks |-> {}, notifies |-> 0, notified |-> <<"NIL", 0>>,
          last |-> "", n |-> 0, exc |-> "none"]

\* no thread is inside retrieve_and_deserialize on an object whose class is
\* missing: thread tells where the thread that backs off is, n counts the
\* back-offs of the process and exc is the exception release has raised;
\* the other fields describe the call in hand, or the last one: its caller,
\* start_time, error_timeout and warning_sent, the warnings it has pushed
\* and when, and whether it has returned results
NoBackoff == [thread |-> "out", n |-> 0, exc |-> "none", caller |-> "none",
              start_time |-> 0, error_timeout |-> 0, warning_sent |-> FALSE,
              warnings |-> 0, warned_at |-> 0, returned |-> FALSE]

\* a thread that is not inside get_serialization_context, n calls made
NoContextCall == [pc |-> "out", driver_id |-> <<"NIL", 0>>, n |-> 0,
                  exc |-> "none"]

\* no serialization context was made yet
NoContexts == [made |-> 0, base |-> 0, of |-> <<>>, created |-> <<>>,
               returned |-> <<>>,
               calls |-> [t \in 1..NumThreads |-> NoContextCall]]

\* a thread that is not inside submit_task and has not called it
NoSub == [pc |-> "out", task_index |-> 0, driver_id |-> <<"NIL", 0>>, n |-> 0,
          exc |-> "none"]

\* a thread that is not inside put
NoPut == [pc |-> "out", value |-> ObjectNotAvailable, object_id |-> NIL_ID,
          index |-> 0]

\* the resources argument of submit_task: None, or a dictionary, of which
\* only the values matter, in iteration order
NoResources == [given |-> FALSE, values |-> <<>>]
Resources(values) == [given |-> TRUE, values |-> values]

NoSubmit == [seq |-> 0, args |-> <<>>, resources |-> NoResources,
             exc |-> "none", returns |-> <<>>]

\* Worker.cached_functions_to_run is a list, or None once connect has
\* exported it
Cached(list) == [none |-> FALSE, list |-> list]
CachedNone == [none |-> TRUE, list |-> <<>>]

\* the control plane before any function was exported
EmptyRedis == [locks |-> {}, blobs |-> {}, exports |-> <<>>]

\* a call of init, shutdown or run_function_on_all_workers: its number, its
\* arguments, whether the worker was connected when it was made, the
\* exception it raised and whether it called services.cleanup
NoSession ==
    [n |-> 0, op |-> "", ignore_reinit_error |-> FALSE, use_raylet |-> "None",
     function |-> "", connected |-> FALSE, exc |-> "none", cleanup |-> FALSE]

\* a driver outside run_function_on_all_workers that has made no call yet:
\* calls counts its calls, runs maps a function to the times this driver
\* has run it, wrote and pushed hold the keys it has written and appended
NoExport == [pc |-> "out", function |-> "", calls |-> 0,
             runs |-> <<>>, wrote |-> <<>>, pushed |-> <<>>]

\* worker.py:1774
UNCAUGHT_ERROR_GRACE_PERIOD == 5

\* the printer thread with no event in hand
Printer(position) == [pc |-> position, error |-> 0, t |-> 0]

\* no call of put_object was made and none of store_and_register is under
\* way; of a call of store_and_register the record keeps the classes of the
\* value, depth, counter, the classes registered so far, the class of
\* e.example_object and the puts and registrations made, in order
NoPutObject == [n |-> 0, object_id |-> NIL_ID, value |-> ObjectNotAvailable,
                before |-> ObjectNotAvailable, exc |-> "none", pc |-> "out",
                classes |-> <<>>, depth |-> 0, counter |-> 0,
                registered |-> {}, example |-> 0, log |-> <<>>]

\* Worker.__init__ (worker.py:154-182); the module's globals
\* (worker.py:1771); the clock starts late enough for time.time() to be
\* past the grace period
Init ==
    /\ connected = FALSE
    /\ mode = None
    /\ task_driver_id = NIL_ID
    /\ current_task_id = NIL_ID
    /\ task_index = 0
    /\ put_index = 1
    /\ actor_id = NIL_ACTOR_ID
    /\ actor_init_error = none_error
    /\ serialization_context_map = <<>>
    /\ store = <<>>
    /\ blocked = {}
    /\ requested = {}
    /\ pc = "not_connected"
    /\ task = NoTask
    /\ arguments = <<>>
    /\ outputs = <<>>
    /\ go = GoOff
    /\ ntasks = 0
    /\ tlog = NoLog
    /\ puts = {}
    /\ last = NoCall
    /\ threads = [t \in 1..NumThreads |-> NoPut]
    /\ tputs = <<>>
    /\ contexts = NoContexts
    /\ submitted = <<>>
    /\ nsubmits = 0
    /\ lastSubmit = NoSubmit
    /\ task_counter = <<>>
    /\ raylet_client = "absent"
    /\ plasma_client = "absent"
    /\ cached_functions_to_run = Cached(<<>>)
    /\ redis_client = "absent"
    /\ redis = EmptyRedis
    /\ ran = <<>>
    /\ connections = 0
    /\ plasma_disconnects = 0
    /\ lastSession = NoSession
    /\ exporters = [d \in 1..NumDrivers |-> NoExport]
    /\ lastPutObject = NoPutObject
    /\ now = UNCAUGHT_ERROR_GRACE_PERIOD
    /\ error_table = <<>>
    /\ pubsub = <<>>
    /\ npublished = 0
    /\ listener = "off"
    /\ printer = Printer("off")
    /\ task_error_queue = <<>>
    /\ elog = <<>>
    /\ last_task_error_raise_time = 0
    /\ raise_times = {}
    /\ sessions = <<>>
    /\ state_lock = "free"
    /\ subs = [t \in 1..NumThreads |-> NoSub]
    /\ gets = [t \in 1..NumThreads |-> NoGet]
    /\ lock = "free"
    /\ import_thread = [pc |-> "idle", n |-> 0]
    /\ backoff = NoBackoff

\* the key under which a function is exported, and its lock
FunctionKey(function) == <<"FunctionsToRun", function>>
LockKey(key) == <<"Lock", key[2]>>

\* redis_client.setnx(lock, 1): the lock is set if absent, and the answer
\* says whether this call set it
setnx(r, key) == [redis |-> [r EXCEPT !.locks = @ \cup {key}],
                  set |-> key \notin r.locks]

\* variant: the function is exported whatever setnx answered
MustExport_Always(function_exported) == TRUE

\* worker.py:670-673: only the caller whose setnx set the lock goes on
MustExport(function_exported) == function_exported

\* variant: the blob is not written
hmset_NoBlob(r, key) == r

\* redis_client.hmset(key, ...) and redis_client.rpush("Exports", key)
hmset(r, key) == [r EXCEPT !.blobs = @ \cup {key}]
rpush(r, key) == [r EXCEPT !.exports = Append(@, key)]

\* worker.py:669-686: setnx on the lock; the caller that set it writes the
\* blob and appends the key to Exports
ExportFunction(r, function) ==
    LET key == FunctionKey(function)
        l == setnx(r, LockKey(key))
    IN  IF ~MustExport(l.set)
        THEN l.redis
        ELSE rpush(hmset(l.redis, key), key)

\* Worker.run_function_on_all_workers of a connected process, for each
\* function of a list in turn: the function runs here, then is exported
RECURSIVE RunFunctions(_, _)
RunFunctions(x, functions) ==
    IF functions = <<>>
    THEN x
    ELSE RunFunctions([ran |-> Append(x.ran, Head(functions)),
                       redis |-> ExportFunction(x.redis, Head(functions))],
                      Tail(functions))

\* the two functions connect itself exports (worker.py:2155-2158)
PathFunctions == <<"insert_script_directory", "insert_current_directory">>

\* variant: the buffer is exported without the functions being run here
ConnectExports_NoRun(x, cached) ==
    LET y == RunFunctions(x, PathFunctions \o cached)
    IN  [y EXCEPT !.ran = x.ran \o PathFunctions]

\* worker.py:2149-2171: what a SCRIPT_MODE connect runs and exports
ConnectExports(x, cached) == RunFunctions(x, PathFunctions \o cached)

\* connect (worker.py:1902-2174), the path on which nothing raises, but for
\* the driver task id and what the version check publishes
ConnectBody(m) ==
    /\ ~connected
    /\ ~cached_functions_to_run.none
    /\ pc = "not_connected"
    /\ connected' = TRUE
    /\ connections' = connections + 1
    /\ mode' = m
    /\ actor_id' = NIL_ACTOR_ID
    /\ task_driver_id' = IF m # WORKER_MODE THEN DriverID(1) ELSE task_driver_id
    /\ task_index' = IF m = SCRIPT_MODE THEN 0 ELSE task_index
    /\ put_index' = IF m = SCRIPT_MODE THEN 1 ELSE put_index
    /\ pc' = IF m = WORKER_MODE THEN "idle" ELSE "driver"
    /\ raylet_client' = IF m = LOCAL_MODE THEN raylet_client ELSE "connected"
    /\ plasma_client' = IF m = LOCAL_MODE THEN plasma_client ELSE "connected"
    /\ redis_client' = IF m = LOCAL_MODE THEN redis_client ELSE "connected"
    /\ LET x == IF m = SCRIPT_MODE
                THEN ConnectExports([ran |-> ran, redis |-> redis],
                                    cached_functions_to_run.list)
                ELSE [ran |-> ran, redis |-> redis]
       IN  /\ ran' = x.ran
           /\ redis' = x.redis
    /\ cached_functions_to_run' =
          IF m = LOCAL_MODE THEN cached_functions_to_run ELSE CachedNone
    /\ listener' = IF m = SCRIPT_MODE THEN "start" ELSE listener
    /\ printer' = IF m = SCRIPT_MODE THEN Printer("get") ELSE printer
    /\ UNCHANGED <<threadVars, submitVars, countVars, plasma_disconnects,
                   exporters, otherVars, actor_init_error, objectVars, task, arguments, outputs,
                   ntasks, tlog, apiVars, go, rayletVars>>

\* worker.py:2064-2109: a driver takes the task id of its driver task, a
\* worker begins without a task, and LOCAL_MODE has returned before
ConnectTaskID(m, driver_task_id) ==
    CASE m = LOCAL_MODE -> current_task_id
      [] m = SCRIPT_MODE -> driver_task_id
      [] OTHER -> NIL_ID

\* connect without an object_id_seed, the version check passing
DoConnect(m) ==
    /\ ConnectBody(m)
    /\ current_task_id' = ConnectTaskID(m, DriverTaskOf(connections))
    /\ UNCHANGED <<error_table, pubsub, npublished, concVars>>

Connect(m) == DoConnect(m) /\ UNCHANGED lastSession


CurEnv == Env(store, serialization_context_map, {})

(***************************************************************************)
(* Worker.get_object.  The call record go holds the ids asked for, the     *)
(* result list final_results, the dict unready_ids (plain id -> index in   *)
(* the argument list) and the task id reported to the raylet as blocked.   *)
(***************************************************************************)
\* the dict comprehension of worker.py:462-466: a later entry for the same
\* key replaces the earlier one
unready_ids(object_ids, final_results) ==
    LET keys == {object_ids[i] : i \in {j \in DOMAIN object_ids :
                                          final_results[j] = ObjectNotAvailable}}
    IN  [id \in keys |->
            CHOOSE i \in DOMAIN object_ids :
                /\ object_ids[i] = id
                /\ final_results[i] = ObjectNotAvailable
                /\ \A j \in DOMAIN object_ids :
                      (object_ids[j] = id /\ final_results[j] = ObjectNotAvailable)
                          => j <= i]

\* a list of the keys of a dict
RECURSIVE KeyList(_)
KeyList(S) ==
    IF S = {} THEN <<>>
    ELSE LET x == CHOOSE y \in S : TRUE IN <<x>> \o KeyList(S \ {x})

\* Worker.get_current_thread_task_id on the main thread
get_current_thread_task_id == current_task_id

\* worker.py:441-457: the initial fetch of every id asked for
GetObjectFetch(caller, object_ids) ==
    [pc |-> "retrieve", caller |-> caller, ids |-> object_ids,
     final |-> <<>>, unready |-> <<>>, task |-> NIL_ID,
     clients |-> IF object_ids = <<>> THEN {} ELSE {"raylet"}]

\* worker.py:460-471: the immediate retrieve, the dict of what is missing,
\* and the task id taken under the state lock when something is missing
GetObjectRetrieve ==
    /\ go.pc = "retrieve"
    /\ LET e == IF go.ids = <<>> THEN CurEnv
                ELSE get_serialization_context(
                         [CurEnv EXCEPT !.clients = {"store"}], task_driver_id)
           final_results == retrieve_and_deserialize(e, go.ids)
           unready == unready_ids(go.ids, final_results)
           missing == DOMAIN unready # {}
       IN  /\ go' = [go EXCEPT
                        !.pc = IF ~missing THEN "done"
                               ELSE IF get_current_thread_task_id = NIL_ID
                               THEN "assertion_failed" ELSE "loop",
                        !.final = final_results,
                        !.unready = unready,
                        !.clients = @ \cup e.clients,
                        !.task = IF missing THEN get_current_thread_task_id
                                 ELSE NIL_ID]
           /\ serialization_context_map' = e.ctx
    /\ UNCHANGED <<sysVars, workerVars, store, loopVars, apiVars, rayletVars>>

\* worker.py:499-506: results that arrived go to the index recorded in
\* unready_ids and their ids leave the dict
MergeResults(final_results, unready, to_fetch, results) ==
    LET arrived == {i \in DOMAIN to_fetch : results[i] # ObjectNotAvailable}
        at(index) == CHOOSE i \in arrived : unready[to_fetch[i]] = index
    IN  [final |-> [index \in DOMAIN final_results |->
                       IF \E i \in arrived : unready[to_fetch[i]] = index
                       THEN results[at(index)] ELSE final_results[index]],
         unready |-> [id \in DOMAIN unready \ {to_fetch[i] : i \in arrived} |->
                         unready[id]]]

\* one round of the loop of worker.py:476-506, and worker.py:510 once the
\* dict is empty
GetObjectLoop ==
    /\ go.pc = "loop"
    /\ LET to_fetch == KeyList(DOMAIN go.unready)
           results == retrieve_and_deserialize(CurEnv, to_fetch)
           m == MergeResults(go.final, go.unready, to_fetch, results)
           finished == DOMAIN m.unready = {}
       IN  /\ go' = [go EXCEPT !.final = m.final, !.unready = m.unready,
                               !.pc = IF finished THEN "done" ELSE "loop"]
           /\ blocked' = IF finished THEN blocked \ {go.task}
                         ELSE blocked \cup {go.task}
           /\ requested' = requested \cup Range(to_fetch)
    /\ UNCHANGED <<sysVars, workerVars, objectVars, loopVars, apiVars>>

\* another process of the cluster stores an object this process asked the
\* raylet to fetch
ObjectArrives(id, v) ==
    /\ id \in (ExternalIDs \cap requested) \ DOMAIN store
    /\ v \in ExternalValues
    /\ store' = id :> v @@ store
    /\ UNCHANGED <<sysVars, workerVars, serialization_context_map, loopVars, apiVars,
                   go, rayletVars>>

(***************************************************************************)
(* Worker.get_object called by several threads of one process.  The steps  *)
(* of a call are the initial fetch, the immediate retrieve, the entry into *)
(* the state lock, the rounds of the loop and notify_unblocked with the    *)
(* exit from the lock.                                                     *)
(***************************************************************************)
\* ray.utils.is_main_thread
is_main_thread(t) == t = 1

\* the random task id of worker.py:197 for the n-th call of thread t
RandomTaskID(t, n) == <<"random", 10 * t + n>>

\* variant: every thread takes the task id of the worker
ThreadTaskID_Current(t, n) == current_task_id

\* Worker.get_current_thread_task_id (worker.py:184-206) on thread t
ThreadTaskID(t, n) ==
    IF is_main_thread(t) THEN current_task_id ELSE RandomTaskID(t, n)

\* variant: the lock and notify_unblocked are used whether or not something
\* is missing
Missing_Always(unready) == TRUE

\* worker.py:468: the test that decides whether the state lock is taken
Missing(unready) == DOMAIN unready # {}

\* variant: the with statement does not wait for the lock
Acquirable_Always(holder) == TRUE

\* worker.py:469: `with self.state_lock` goes on once the lock is free
Acquirable(holder) == holder = "free"

\* worker.py:441-457: the checks and the initial fetch, which does not block
ThreadGet(t, object_ids) ==
    /\ connected /\ mode # LOCAL_MODE
    /\ gets[t].pc = "out"
    /\ gets[t].n < MaxThreadGets
    /\ gets' = [gets EXCEPT ![t] =
                   [NoGet EXCEPT !.pc = "retrieve", !.ids = object_ids,
                                 !.n = gets[t].n + 1]]
    /\ requested' = requested \cup Range(object_ids)
    /\ UNCHANGED <<workerVars, objectVars, loopVars, apiVars, go, blocked,
                   threadVars, submitVars, countVars, clientVars, sessionVars,
                   lastSession, exporters, lastPutObject, errorVars, lockVars, sessions,
                   state_lock, subs>>

\* worker.py:459-468: the immediate retrieve and the dict of what is missing
ThreadGetRetrieve(t) ==
    /\ gets[t].pc = "retrieve"
    /\ LET e == IF gets[t].ids = <<>> THEN CurEnv
                ELSE get_serialization_context(CurEnv, task_driver_id)
           final_results == retrieve_and_deserialize(e, gets[t].ids)
           unready == unready_ids(gets[t].ids, final_results)
       IN  /\ gets' = [gets EXCEPT ![t].final = final_results,
                                   ![t].unready = unready,
                                   ![t].missing = DOMAIN unready # {},
                                   ![t].pc = IF Missing(unready) THEN "lock"
                                             ELSE "returned"]
           /\ serialization_context_map' = e.ctx
    /\ UNCHANGED <<workerVars, store, loopVars, apiVars, go, rayletVars,
                   threadVars, submitVars, countVars, clientVars, sessionVars,
                   lastSession, exporters, lastPutObject, errorVars, lockVars, sessions,
                   state_lock, subs>>

\* worker.py:469-471: the state lock is taken and the task id of the thread
\* is computed; its assertion fails on a main thread without a task, which
\* leaves get_object and the lock
ThreadGetLock(t) ==
    /\ gets[t].pc = "lock"
    /\ Acquirable(state_lock)
    /\ IF ThreadTaskID(t, gets[t].n) = NIL_ID
       THEN /\ gets' = [gets EXCEPT ![t].pc = "out",
                                    ![t].exc = "AssertionError"]
            /\ UNCHANGED state_lock
       ELSE /\ gets' = [gets EXCEPT ![t].pc = "loop",
                                    ![t].task = ThreadTaskID(t, gets[t].n)]
            /\ state_lock' = "held"
    /\ UNCHANGED <<coreVars, threadVars, submitVars, countVars, clientVars,
                   sessionVars, lastSession, exporters, lastPutObject,
                   errorVars, lockVars, sessions, subs>>

\* variant: the loop ends after one round
LoopEnds_AfterOneRound(unready) == TRUE

\* worker.py:476: the loop ends once the dict of unready ids is empty
LoopEnds(unready) == DOMAIN unready = {}

\* one round of the loop of worker.py:476-506: the blocking fetch of what
\* is missing, the retrieve and the merge of what came; fetches counts the
\* rounds up to MaxFetches
ThreadGetLoop(t) ==
    /\ gets[t].pc = "loop"
    /\ LET to_fetch == KeyList(DOMAIN gets[t].unready)
           results == retrieve_and_deserialize(CurEnv, to_fetch)
           m == MergeResults(gets[t].final, gets[t].unready, to_fetch, results)
       IN  IF to_fetch = <<>>
           THEN /\ gets' = [gets EXCEPT ![t].pc = "notify"]
                /\ UNCHANGED <<blocked, requested>>
           ELSE /\ gets' = [gets EXCEPT
                               ![t].final = m.final,
                               ![t].unready = m.unready,
                               ![t].fetches = Min(@ + 1, MaxFetches),
                               ![t].fetch_tasks = @ \cup {gets[t].task},
                               ![t].last = "fetch",
                               ![t].pc = IF LoopEnds(m.unready)
                                         THEN "notify" ELSE "loop"]
                /\ blocked' = blocked \cup {gets[t].task}
                /\ requested' = requested \cup Range(to_fetch)
    /\ UNCHANGED <<workerVars, objectVars, loopVars, apiVars, go, threadVars,
                   submitVars, countVars, clientVars, sessionVars, lastSession,
                   exporters, lastPutObject, errorVars, lockVars, sessions, state_lock,
                   subs>>

\* worker.py:510: notify_unblocked, and the end of the with statement
ThreadGetNotify(t) ==
    /\ gets[t].pc = "notify"
    /\ gets' = [gets EXCEPT ![t].notifies = @ + 1,
                            ![t].notified = gets[t].task,
                            ![t].last = "notify",
                            ![t].pc = "returned"]
    /\ blocked' = blocked \ {gets[t].task}
    /\ state_lock' = "free"
    /\ UNCHANGED <<workerVars, objectVars, loopVars, apiVars, go, requested,
                   threadVars, submitVars, countVars, clientVars, sessionVars,
                   lastSession, exporters, lastPutObject, errorVars, lockVars, sessions,
                   subs>>

\* worker.py:512-513: get_object returns final_results to its caller
ThreadGetReturns(t) ==
    /\ gets[t].pc = "returned"
    /\ gets' = [gets EXCEPT ![t] = [NoGet EXCEPT !.n = gets[t].n]]
    /\ UNCHANGED <<coreVars, threadVars, submitVars, countVars, clientVars,
                   sessionVars, lastSession, exporters, lastPutObject,
                   errorVars, lockVars, sessions, state_lock, subs>>



(***************************************************************************)
(* The task loop of a worker (main_loop, _wait_for_and_process_task,       *)
(* _process_task).                                                         *)
(***************************************************************************)
\* worker.py:767-771, the four assertions at the start of _process_task
StartAssertions ==
    /\ task_driver_id = NIL_ID
    /\ current_task_id = NIL_ID
    /\ task_index = 0
    /\ put_index = 1

\* main_loop takes the next task (worker.py:961, 944), the worker becomes
\* the actor of a creation task (worker.py:883-887), the execution lock is
\* taken (worker.py:897) and _process_task takes the task's identity
\* (worker.py:767-787)
TakeTask(t) ==
    /\ pc = "idle"
    /\ lock = "free"
    /\ state_lock = "free"
    /\ t \in PossibleTasks(ntasks + 1, actor_id) \cup CountedTasks(ntasks + 1)
    /\ ntasks' = ntasks + 1
    /\ tlog' = NoLog
    /\ task' = t
    /\ actor_id' = IF t.actor_creation_id # NIL_ACTOR_ID
                   THEN t.actor_creation_id ELSE actor_id
    /\ arguments' = <<>>
    /\ outputs' = <<>>
    /\ IF StartAssertions
       THEN /\ task_driver_id' = t.driver_id
            /\ current_task_id' = t.task_id
            /\ lock' = "main"
            /\ pc' = "process"
       ELSE /\ pc' = "crashed"
            /\ UNCHANGED <<task_driver_id, current_task_id, lock>>
    /\ UNCHANGED <<sysButConc, sessions, state_lock, subs, gets,
                   import_thread, backoff, connected, mode, task_index,
                   put_index, actor_init_error, objectVars, apiVars, go,
                   rayletVars>>

\* the tasks of a worker
GetTask(t) == ntasks < MaxTasks /\ TakeTask(t)

\* the tasks of a worker that runs a function with max_calls
GetCountedTask(t) == ntasks < MaxCountedTasks /\ TakeTask(t)

\* the tasks of a worker that becomes an actor with its first task
GetActorTask(t) == ntasks < MaxActorTasks /\ IsActorTask(t) /\ TakeTask(t)

\* variant: any failure on an actor marks it
MarksActorInitFailed_AnyFunction(worker_actor_id, function_name) ==
    worker_actor_id # NIL_ACTOR_ID

\* worker.py:868: which failures mark the actor as failed in __init__
MarksActorInitFailed(worker_actor_id, function_name) ==
    worker_actor_id # NIL_ACTOR_ID /\ function_name = "__init__"

\* variant: only the first return id gets the failure object
FailureIDs_First(t) ==
    SubSeq(return_object_ids(t), 1, Min(1, Len(return_object_ids(t))))

\* the ids the failure handler fills with the failure object
FailureIDs(t) == return_object_ids(t)

\* variant: the event goes to one fixed driver
ErrorDriver_First == DriverID(1)

\* the driver the failure handler reports to (worker.py:860)
ErrorDriver == task_driver_id

\* Worker._handle_process_task_failure on the object state e, then the
\* return of _process_task
HandleProcessTaskFailure(e, error) ==
    LET failure_object == RayTaskError(task.function_name, error.site)
        ids == FailureIDs(task)
        r == _store_outputs_in_object_store(
                 e, task_driver_id, ids,
                 [i \in 1..Len(ids) |-> failure_object])
    IN  /\ store' = r.env.store
        /\ serialization_context_map' = r.env.ctx
        /\ IF r.exc = "none"
           THEN /\ tlog' = [tlog EXCEPT
                               !.failure = error,
                               !.returned = TRUE,
                               !.pushed = Append(@,
                                   [driver_id |-> ErrorDriver, type |-> "task",
                                    function_name |-> task.function_name,
                                    message |-> failure_object.tb])]
                /\ actor_init_error' =
                        IF MarksActorInitFailed(actor_id, task.function_name)
                        THEN error ELSE actor_init_error
                /\ pc' = "returned"
           ELSE /\ tlog' = [tlog EXCEPT !.failure = error]
                /\ pc' = "crashed"
                /\ UNCHANGED actor_init_error

\* variant: only __init__ itself re-raises the init error
ChecksInitError_OnlyInit(function_name) == function_name = "__init__"

\* worker.py:791-792: the init error stops every function but this one
ChecksInitError(function_name) == function_name # "__ray_terminate__"

\* worker.py:790-793: reraise_actor_init_error and the memory monitor
ProcessTask(low_memory) ==
    /\ pc = "process"
    /\ IF ChecksInitError(task.function_name) /\ actor_init_error # none_error
       THEN HandleProcessTaskFailure(CurEnv, actor_init_error)
       ELSE IF low_memory
       THEN HandleProcessTaskFailure(
                CurEnv, Error("Exception", "raise_if_low_memory", task.task_id))
       ELSE /\ pc' = "arguments"
            /\ tlog' = [tlog EXCEPT !.fetched = TRUE]
            /\ UNCHANGED <<objectVars, actor_init_error>>
    /\ UNCHANGED <<sysVars, connected, mode, task_driver_id, current_task_id, task_index,
                   put_index, actor_id, task, arguments, outputs, ntasks,
                   apiVars, go, rayletVars>>

\* _get_arguments_for_execution, one argument per step (worker.py:716-728)
NextArgument ==
    /\ pc = "arguments"
    /\ go.pc = "off"
    /\ LET i == Len(arguments) + 1
       IN  IF i > Len(task.arguments)
           THEN /\ pc' = "execute"
                /\ UNCHANGED <<arguments, go, requested>>
           ELSE IF ~task.arguments[i].ref
           THEN /\ arguments' = Append(arguments, task.arguments[i].v)
                /\ UNCHANGED <<pc, go, requested>>
           ELSE /\ go' = GetObjectFetch("task", <<task.arguments[i].id>>)
                /\ requested' = requested \cup {task.arguments[i].id}
                /\ UNCHANGED <<pc, arguments>>
    /\ UNCHANGED <<sysVars, workerVars, objectVars, task, outputs, ntasks, tlog, apiVars,
                   blocked>>

\* worker.py:720-722: the fetched argument, raised if it is a RayTaskError
ArgumentFetched ==
    /\ pc = "arguments"
    /\ go.pc \in {"done", "assertion_failed"}
    /\ go.caller = "task"
    /\ go' = GoOff
    /\ IF go.pc = "assertion_failed"
       THEN /\ HandleProcessTaskFailure(
                   CurEnv, Error("AssertionError", "argument", task.task_id))
            /\ UNCHANGED arguments
       ELSE IF IsRayTaskError(go.final[1])
       THEN /\ HandleProcessTaskFailure(
                   CurEnv, Error("RayTaskError", "argument", task.task_id))
            /\ UNCHANGED arguments
       ELSE /\ arguments' = Append(arguments, go.final[1])
            /\ UNCHANGED <<pc, objectVars, tlog, actor_init_error>>
    /\ UNCHANGED <<sysVars, connected, mode, task_driver_id, current_task_id, task_index,
                   put_index, actor_id, task, outputs, ntasks, apiVars,
                   rayletVars>>

\* worker.py:809-820: the body is invoked
InvokeBody ==
    /\ pc = "execute"
    /\ pc' = "body"
    /\ tlog' = [tlog EXCEPT !.invoked = TRUE]
    /\ UNCHANGED <<sysVars, workerVars, objectVars, task, arguments, outputs, ntasks,
                   apiVars, go, rayletVars>>

\* the body raises (worker.py:821-829)
BodyRaises ==
    /\ pc = "body"
    /\ go.pc = "off"
    /\ HandleProcessTaskFailure(
           CurEnv, Error("Exception", "task_body", task.task_id))
    /\ UNCHANGED <<sysVars, connected, mode, task_driver_id, current_task_id, task_index,
                   put_index, actor_id, task, arguments, outputs, ntasks,
                   apiVars, go, rayletVars>>

\* the body returns
BodyReturns(out) ==
    /\ pc = "body"
    /\ go.pc = "off"
    /\ out \in PossibleOutputs(task.num_returns)
    /\ outputs' = out
    /\ pc' = "store"
    /\ UNCHANGED <<sysVars, workerVars, objectVars, task, arguments, ntasks, tlog,
                   apiVars, go, rayletVars>>

\* worker.py:831-844: the outputs are stored; a failure there goes to the
\* failure handler like any other
StoreOutputs ==
    /\ pc = "store"
    /\ LET r == _store_outputs_in_object_store(
                    CurEnv, task_driver_id, return_object_ids(task), outputs)
       IN  IF r.exc = "none"
           THEN /\ store' = r.env.store
                /\ serialization_context_map' = r.env.ctx
                /\ tlog' = [tlog EXCEPT !.returned = TRUE]
                /\ pc' = "returned"
                /\ UNCHANGED actor_init_error
           ELSE HandleProcessTaskFailure(
                    r.env, Error(r.exc, "store_outputs", task.task_id))
    /\ UNCHANGED <<sysVars, connected, mode, task_driver_id, current_task_id, task_index,
                   put_index, actor_id, task, arguments, outputs, ntasks,
                   apiVars, go, rayletVars>>

\* function_actor_manager.get_task_counter
get_task_counter(counter, driver_id, function_name) ==
    IF <<driver_id, function_name>> \in DOMAIN counter
    THEN counter[<<driver_id, function_name>>] ELSE 0

\* function_actor_manager.increase_task_counter
increase_task_counter(counter, driver_id, function_name) ==
    (<<driver_id, function_name>> :>
        get_task_counter(counter, driver_id, function_name) + 1) @@ counter

\* variant: the worker leaves once the counter has passed max_calls
reached_max_executions_Above(count, max_calls) == count > max_calls

\* worker.py:931-932
reached_max_executions(count, max_calls) == count = max_calls

\* worker.py:920-935: the per-task state is reset for the next task, the
\* execution lock is released (a lock that is not held makes release raise
\* RuntimeError, which leaves the main loop), the execution counter of the
\* task's function is increased, and the worker leaves when the counter has
\* reached max_calls
ResetTaskState ==
    /\ pc = "returned"
    /\ state_lock = "free"
    /\ IF lock = "free"
       THEN /\ pc' = "crashed"
            /\ UNCHANGED <<lock, task_counter, raylet_client>>
       ELSE /\ lock' = "free"
            /\ task_counter' =
                  increase_task_counter(task_counter, task.driver_id,
                                        task.function_name)
            /\ IF reached_max_executions(
                      get_task_counter(task_counter', task.driver_id,
                                       task.function_name),
                      FunctionMaxCalls(task.function_name))
               THEN /\ raylet_client' = "disconnected"
                    /\ pc' = "exited"
               ELSE /\ pc' = "idle"
                    /\ UNCHANGED raylet_client
    /\ task_driver_id' = NIL_ID
    /\ current_task_id' = NIL_ID
    /\ task_index' = 0
    /\ put_index' = 1
    /\ task' = NoTask
    /\ arguments' = <<>>
    /\ outputs' = <<>>
    /\ tlog' = NoLog
    /\ UNCHANGED <<threadVars, submitVars, plasma_client, sessionVars,
                   lastSession, exporters, lastPutObject, errorVars, sessions,
                   state_lock, subs, gets, import_thread, backoff, connected,
                   mode, actor_id, actor_init_error, objectVars, ntasks,
                   apiVars, go, rayletVars>>


(***************************************************************************)
(* The module-level put, get and wait, called by the driver program or by  *)
(* the body of the task in hand.                                           *)
(***************************************************************************)
CanCall == pc \in {"not_connected", "driver", "body"} /\ go.pc = "off"

Call(op, ids, num) ==
    [op |-> op, mode |-> mode, ids |-> ids, num |-> num, res |-> <<>>,
     rest |-> <<>>, exc |-> "none", clients |-> {}, waits |-> 0,
     put_index |-> put_index, task_index |-> task_index]

\* values a LOCAL_MODE program passes around where ids would be
LocalItems == {Value("val", 1), Value("val", 2)}

\* variant: put_index is not advanced
NextPutIndex_Same(index) == index

\* worker.py:2406
NextPutIndex(index) == index + 1

\* variant: the LOCAL_MODE test comes after the store was contacted
LocalPut_Store(value) == [res |-> <<value>>, clients |-> {"store"}]

\* what put does in LOCAL_MODE (worker.py:2401-2403): the value comes back
LocalPut(value) == [res |-> <<value>>, clients |-> {}]

\* the log of the driver session in course, if one is kept, with one more
\* call: what was called, with what, what came back and what was raised
LogCall(op, args, res, exc) ==
    IF sessions = <<>> THEN sessions
    ELSE [sessions EXCEPT ![Len(sessions)].calls =
             Append(@, [op |-> op, args |-> args, res |-> res, exc |-> exc])]

\* put (worker.py:2389-2407)
Put(value) ==
    /\ CanCall
    /\ value \in PutValues
    /\ IF ~connected
       THEN /\ last' = [Call("put", <<value>>, 0) EXCEPT !.exc = "RayConnectionError"]
            /\ UNCHANGED <<put_index, objectVars, puts>>
       ELSE IF mode = LOCAL_MODE
       THEN /\ last' = [Call("put", <<value>>, 0) EXCEPT
                           !.res = LocalPut(value).res,
                           !.clients = LocalPut(value).clients]
            /\ UNCHANGED <<put_index, objectVars, puts>>
       ELSE /\ Cardinality(puts) < MaxPuts
            /\ LET object_id == compute_put_id(current_task_id, put_index)
                   r == put_object([CurEnv EXCEPT !.clients = {"raylet"}],
                                   task_driver_id, object_id, value)
               IN  /\ store' = r.env.store
                   /\ serialization_context_map' = r.env.ctx
                   /\ IF r.exc = "none"
                      THEN /\ put_index' = NextPutIndex(put_index)
                           /\ puts' = puts \cup {<<object_id, value>>}
                           /\ last' = [Call("put", <<value>>, 0) EXCEPT
                                          !.res = <<object_id>>,
                                          !.clients = r.env.clients]
                      ELSE /\ last' = [Call("put", <<value>>, 0) EXCEPT
                                          !.exc = r.exc,
                                          !.clients = r.env.clients]
                           /\ UNCHANGED <<put_index, puts>>
    /\ sessions' = LogCall("put", <<value>>, last'.res, last'.exc)
    /\ UNCHANGED <<sysButLog, connected, mode, task_driver_id, current_task_id,
                   task_index, actor_id, actor_init_error, loopVars, go,
                   rayletVars>>

\* the ids a program can hold: those of other tasks' objects and those put
\* has returned to it
KnownIDs == ExternalIDs \cup {p[1] : p \in puts}

\* the lists a program passes to get and to wait
GetInputs ==
    IF ~connected THEN SeqsUpTo(ExternalIDs, 1)
    ELSE IF mode = LOCAL_MODE THEN SeqsUpTo(LocalItems, MaxLen)
    ELSE SeqsUpTo(KnownIDs, MaxLen)
WaitInputs ==
    IF ~connected THEN SeqsUpTo(ExternalIDs, 1)
    ELSE IF mode = LOCAL_MODE THEN SeqsUpTo(LocalItems, MaxLen)
    ELSE SeqsUpTo(ExternalIDs, MaxLen)

\* get (worker.py:2344-2386) up to get_object's initial fetch
Get(object_ids) ==
    /\ CanCall
    /\ object_ids \in GetInputs
    /\ IF ~connected
       THEN /\ last' = [Call("get", object_ids, 0) EXCEPT !.exc = "RayConnectionError"]
            /\ UNCHANGED <<go, requested>>
       ELSE IF mode = LOCAL_MODE
       THEN /\ last' = [Call("get", object_ids, 0) EXCEPT !.res = object_ids]
            /\ UNCHANGED <<go, requested>>
       ELSE /\ go' = GetObjectFetch("get", object_ids)
            /\ requested' = requested \cup Range(object_ids)
            /\ last' = Call("get_object", object_ids, 0)
    /\ UNCHANGED <<sysVars, workerVars, objectVars, loopVars, puts, blocked>>

\* worker.py:2372-2386: get_object has returned; the first RayTaskError
\* among the values is raised, the time of the raise being recorded
GetReturns ==
    /\ go.pc \in {"done", "assertion_failed"}
    /\ go.caller = "get"
    /\ go' = GoOff
    /\ LET values == go.final
           failed == {i \in DOMAIN values : IsRayTaskError(values[i])}
           first == CHOOSE i \in failed : \A j \in failed : i <= j
       IN  last' = IF go.pc = "assertion_failed"
                   THEN [last EXCEPT !.op = "get", !.exc = "AssertionError",
                                     !.clients = go.clients]
                   ELSE IF failed = {}
                   THEN [last EXCEPT !.op = "get", !.res = values,
                                     !.clients = go.clients]
                   ELSE [last EXCEPT !.op = "get", !.res = <<values[first]>>,
                                     !.exc = "RayTaskError",
                                     !.clients = go.clients]
    /\ IF go.pc = "done"
          /\ \E i \in DOMAIN go.final : IsRayTaskError(go.final[i])
       THEN /\ last_task_error_raise_time' = now
            /\ raise_times' = raise_times \cup {now}
       ELSE UNCHANGED raiseVars
    /\ UNCHANGED <<threadVars, submitVars, countVars, clientVars, sessionVars,
                   lastSession, exporters, lastPutObject, concVars, messageVars,
                   errorThreads, workerVars, objectVars, loopVars, puts,
                   rayletVars>>

\* variant: the slice is one element too long
SliceTo_OneMore(s, n) == SubSeq(s, 1, Min(n + 1, Len(s)))

\* Python's s[:n] and s[n:]
SliceTo(s, n) ==
    SubSeq(s, 1, IF n < 0 THEN Max(Len(s) + n, 0) ELSE Min(n, Len(s)))
SliceFrom(s, n) ==
    SubSeq(s, (IF n < 0 THEN Max(Len(s) + n, 0) ELSE Min(n, Len(s))) + 1, Len(s))

\* the elements of s at the positions in P, in the order of s
RECURSIVE Pick(_, _)
Pick(s, P) ==
    IF s = <<>> THEN <<>>
    ELSE Pick(SubSeq(s, 1, Len(s) - 1), P) \o
         (IF Len(s) \in P THEN <<s[Len(s)]>> ELSE <<>>)

\* raylet_client.wait: at most num_returns of the ids are reported ready,
\* the others remaining, both in the order of the list
RayletWait(object_ids, num_returns, P) ==
    [ready |-> Pick(object_ids, P),
     remaining |-> Pick(object_ids, DOMAIN object_ids \ P)]

\* variant: num_returns is not compared with the number of ids
WaitArgumentError_NoUpperCheck(object_ids, num_returns) ==
    IF Len(object_ids) # Cardinality(Range(object_ids)) THEN "not unique"
    ELSE IF num_returns <= 0 THEN "invalid num_returns"
    ELSE "none"

\* worker.py:2469-2476: the checks before the raylet is asked
WaitArgumentError(object_ids, num_returns) ==
    IF Len(object_ids) # Cardinality(Range(object_ids)) THEN "not unique"
    ELSE IF num_returns <= 0 THEN "invalid num_returns"
    ELSE IF num_returns > Len(object_ids) THEN "num_returns too large"
    ELSE "none"

\* wait (worker.py:2410-2485)
Wait(object_ids, num_returns, P) ==
    /\ CanCall
    /\ object_ids \in WaitInputs
    /\ num_returns \in -1..(MaxLen + 1)
    /\ IF ~connected
       THEN /\ P = {}
            /\ last' = [Call("wait", object_ids, num_returns) EXCEPT
                           !.exc = "RayConnectionError"]
       ELSE IF mode = LOCAL_MODE
       THEN /\ P = {}
            /\ last' = [Call("wait", object_ids, num_returns) EXCEPT
                           !.res = SliceTo(object_ids, num_returns),
                           !.rest = SliceFrom(object_ids, num_returns)]
       ELSE /\ IF Len(object_ids) = 0
               THEN /\ P = {}
                    /\ last' = Call("wait", object_ids, num_returns)
               ELSE IF WaitArgumentError(object_ids, num_returns) # "none"
               THEN /\ P = {}
                    /\ last' = [Call("wait", object_ids, num_returns) EXCEPT
                                   !.exc = "Exception"]
               ELSE IF get_current_thread_task_id = NIL_ID
               THEN /\ P = {}
                    /\ last' = [Call("wait", object_ids, num_returns) EXCEPT
                                   !.exc = "AssertionError"]
               ELSE /\ P \in SUBSET DOMAIN object_ids
                    /\ Cardinality(P) <= num_returns
                    /\ LET w == RayletWait(object_ids, num_returns, P)
                       IN  last' = [Call("wait", object_ids, num_returns) EXCEPT
                                       !.res = w.ready, !.rest = w.remaining,
                                       !.clients = {"raylet"}, !.waits = 1]
    /\ UNCHANGED <<sysVars, workerVars, objectVars, loopVars, puts, go, rayletVars>>

\* wait called by thread t with num_returns = 1 (worker.py:2443-2485), the
\* checks of its arguments passing: the task id is read with the state
\* lock held, the lock is left and raylet_client.wait is called with it
ThreadWait(t, object_ids) ==
    /\ connected /\ mode # LOCAL_MODE
    /\ gets[t].pc = "out"
    /\ gets[t].n < MaxThreadGets
    /\ Len(object_ids) > 0
    /\ WaitArgumentError(object_ids, 1) = "none"
    /\ Acquirable(state_lock)
    /\ LET n == gets[t].n + 1
       IN  IF ThreadTaskID(t, n) = NIL_ID
           THEN gets' = [gets EXCEPT ![t] =
                            [NoGet EXCEPT !.n = n, !.exc = "AssertionError"]]
           ELSE gets' = [gets EXCEPT ![t] =
                            [NoGet EXCEPT !.pc = "returned", !.n = n,
                                          !.ids = object_ids, !.last = "wait",
                                          !.task = ThreadTaskID(t, n)]]
    /\ UNCHANGED <<coreVars, threadVars, submitVars, countVars, clientVars,
                   sessionVars, lastSession, exporters, lastPutObject,
                   errorVars, lockVars, sessions, state_lock, subs>>

(***************************************************************************)
(* put called from several threads of one process.  put takes no lock: it  *)
(* reads worker.put_index to compute the id, stores the object, and then   *)
(* executes worker.put_index += 1, a read followed by a write.  Each of    *)
(* these is a step of the calling thread, and the steps of different       *)
(* threads interleave.                                                     *)
(***************************************************************************)
ThreadValues == {Value("val", 1), Value("typeerr", 1)}

PutsStarted ==
    Len(tputs) + Cardinality({t \in DOMAIN threads : threads[t].pc # "out"})

\* a thread other than the main one can make calls: in a driver at any
\* time, in a worker once the body of a task has started it
ThreadCanCall ==
    /\ connected /\ mode # LOCAL_MODE
    /\ \/ pc = "driver"
       \/ ntasks >= 2 /\ pc \in {"idle", "process", "arguments", "execute",
                                  "body", "store", "returned"}
       \/ ntasks = 1 /\ pc \in {"idle", "body", "store", "returned"}

\* put, worker.py:2399-2404: check_connected, the mode test, compute_put_id
PutComputeId(t, value) ==
    /\ ThreadCanCall
    /\ threads[t].pc = "out"
    /\ PutsStarted < MaxThreadPuts
    /\ threads' = [threads EXCEPT ![t] =
                      [pc |-> "computed", value |-> value,
                       object_id |-> compute_put_id(current_task_id, put_index),
                       index |-> 0]]
    /\ UNCHANGED <<coreVars, tputs, notThreads,
                   contexts>>

\* put, worker.py:2405: put_object; an exception leaves put
PutStoreObject(t) ==
    /\ threads[t].pc = "computed"
    /\ LET r == put_object([CurEnv EXCEPT !.clients = {"raylet"}],
                           task_driver_id, threads[t].object_id,
                           threads[t].value)
       IN  /\ store' = r.env.store
           /\ serialization_context_map' = r.env.ctx
           /\ IF r.exc = "none"
              THEN /\ threads' = [threads EXCEPT ![t].pc = "stored"]
                   /\ UNCHANGED tputs
              ELSE /\ threads' = [threads EXCEPT ![t] = NoPut]
                   /\ tputs' = Append(tputs,
                                      [thread |-> t, value |-> threads[t].value,
                                       object_id |-> threads[t].object_id,
                                       exc |-> r.exc])
    /\ UNCHANGED <<workerVars, loopVars, apiVars, go, rayletVars, notThreads,
                   contexts>>

\* put, worker.py:2406: the read of worker.put_index += 1
PutReadIndex(t) ==
    /\ threads[t].pc = "stored"
    /\ threads' = [threads EXCEPT ![t].pc = "read", ![t].index = put_index]
    /\ UNCHANGED <<coreVars, tputs, notThreads,
                   contexts>>

\* put, worker.py:2406-2407: the write of worker.put_index += 1, and the
\* return of the object id
PutWriteIndex(t) ==
    /\ threads[t].pc = "read"
    /\ put_index' = NextPutIndex(threads[t].index)
    /\ threads' = [threads EXCEPT ![t] = NoPut]
    /\ tputs' = Append(tputs, [thread |-> t, value |-> threads[t].value,
                               object_id |-> threads[t].object_id,
                               exc |-> "none"])
    /\ UNCHANGED <<connected, mode, task_driver_id, current_task_id, task_index,
                   actor_id, actor_init_error, objectVars, loopVars, apiVars,
                   go, rayletVars, notThreads,
                   contexts>>

(***************************************************************************)
(* Worker.submit_task.  A resource quantity is a Python int, a Python      *)
(* float or something else; numbers are kept as twice their value, so that *)
(* halves are integers here: 0.5 is [float, 1], 2.0 is [float, 4], 1 is    *)
(* [int, 2].                                                               *)
(***************************************************************************)
Quantity(type, twice) == [type |-> type, twice |-> twice]
ResourceValues ==
    {Quantity("int", 2), Quantity("int", -2), Quantity("float", 1),
     Quantity("float", 3), Quantity("float", 4), Quantity("str", 0)}
ResourceMaps ==
    {NoResources} \cup {Resources(v) : v \in SeqsUpTo(ResourceValues, MaxResources)}

\* float.is_integer
is_integer(value) == value.twice % 2 = 0

\* variant: quantities of 1 and more need not be whole
QuantityError_AnyFraction(value) ==
    IF value.type \notin {"int", "float"} THEN "AssertionError"
    ELSE IF value.twice < 0 THEN "ValueError"
    ELSE "none"

\* worker.py:602-609, the checks on one value of the dictionary
QuantityError(value) ==
    IF value.type \notin {"int", "float"} THEN "AssertionError"
    ELSE IF value.twice < 0 THEN "ValueError"
    ELSE IF value.twice >= 2 /\ value.type = "float" /\ ~is_integer(value)
    THEN "ValueError"
    ELSE "none"

\* worker.py:599-609: the first check that fails raises
RECURSIVE ValuesError(_, _)
ValuesError(values, i) ==
    IF i > Len(values) THEN "none"
    ELSE IF QuantityError(values[i]) # "none" THEN QuantityError(values[i])
    ELSE ValuesError(values, i + 1)

ResourcesError(resources) ==
    IF ~resources.given THEN "ValueError" ELSE ValuesError(resources.values, 1)

\* the arguments of a remote call: nothing, an ObjectID, a value that
\* check_simple_value accepts, a value that it does not
SubmitArgs ==
    {<<>>, <<ArgID(ExternalID(1))>>, <<ArgValue(Value("val", 1))>>,
     <<ArgValue(Value("val", 2))>>}
IsSimpleValue(v) == v = Value("val", 1)

\* worker.py:582-589 for the one argument a call has here: put(arg) for a
\* value passed by value that is not simple.  The result is the state of
\* the process after the loop, the arguments for the scheduler and the
\* exception of put, if any.
ArgsForLocalScheduler(args) ==
    LET same == [env |-> CurEnv, put_index |-> put_index, args |-> args,
                 exc |-> "none"]
    IN  IF args = <<>> \/ args[1].ref \/ IsSimpleValue(args[1].v)
        THEN same
        ELSE IF ~connected
        THEN [same EXCEPT !.exc = "RayConnectionError"]
        ELSE IF mode = LOCAL_MODE
        THEN same
        ELSE LET object_id == compute_put_id(current_task_id, put_index)
                 r == put_object(CurEnv, task_driver_id, object_id, args[1].v)
             IN  IF r.exc # "none"
                 THEN [same EXCEPT !.env = r.env, !.exc = r.exc]
                 ELSE [env |-> r.env, put_index |-> NextPutIndex(put_index),
                       args |-> <<ArgID(object_id)>>, exc |-> "none"]

\* Task.returns(): the ids of the return objects of a task, one here
returns(tid) == <<ReturnID(tid, 1)>>

\* Worker.submit_task (worker.py:515-633)
SubmitTask(args, resources) ==
    /\ CanCall
    /\ state_lock = "free"
    /\ nsubmits < MaxSubmits
    /\ nsubmits' = nsubmits + 1
    /\ LET a == ArgsForLocalScheduler(args)
           call == [seq |-> nsubmits + 1, args |-> args,
                    resources |-> resources, exc |-> "none",
                    returns |-> <<>>]
           new == [driver_id |-> task_driver_id, args |-> a.args,
                   parent_task_id |-> current_task_id,
                   parent_counter |-> task_index, resources |-> resources]
       IN  /\ store' = a.env.store
           /\ serialization_context_map' = a.env.ctx
           /\ put_index' = a.put_index
           /\ IF a.exc # "none"
              THEN /\ lastSubmit' = [call EXCEPT !.exc = a.exc]
                   /\ UNCHANGED <<task_index, submitted>>
              ELSE IF ResourcesError(resources) # "none"
              THEN /\ lastSubmit' = [call EXCEPT
                                        !.exc = ResourcesError(resources)]
                   /\ UNCHANGED <<task_index, submitted>>
              ELSE /\ task_index' = task_index + 1
                   /\ IF current_task_id = NIL_ID
                      THEN /\ lastSubmit' = [call EXCEPT
                                                !.exc = "AssertionError"]
                           /\ UNCHANGED submitted
                      ELSE /\ submitted' = Append(submitted, new)
                           /\ lastSubmit' = [call EXCEPT !.returns =
                                  returns(Task_task_id(current_task_id,
                                                       task_index))]
    /\ sessions' = LogCall("submit_task", <<args, resources>>,
                           lastSubmit'.returns, lastSubmit'.exc)
    /\ UNCHANGED <<connected, mode, task_driver_id, current_task_id, actor_id,
                   actor_init_error, loopVars, apiVars, go, rayletVars,
                   notSubmitButLog>>

\* submit_task in a thread, worker.py:567-613: the arguments and the
\* resources are looked at and the thread comes to `with self.state_lock`
SubmitCall(t) ==
    /\ ThreadCanCall
    /\ subs[t].pc = "out"
    /\ subs[t].n < MaxThreadSubmits
    /\ subs' = [subs EXCEPT ![t].pc = "lock"]
    /\ UNCHANGED <<coreVars, threadVars, submitVars, countVars, clientVars,
                   sessionVars, lastSession, exporters, lastPutObject,
                   errorVars, lockVars, sessions, state_lock, gets>>

\* submit_task in a thread other than the main one, worker.py:614-619: with
\* the state lock held, task_index is taken and incremented and the
\* assertion on current_task_id is made; the driver id was read on entry
SubmitCapture(t) ==
    /\ ThreadCanCall
    /\ subs[t].pc \in {"out", "lock"}
    /\ subs[t].n < MaxThreadSubmits
    /\ state_lock = "free"
    /\ task_index' = task_index + 1
    /\ subs' = [subs EXCEPT ![t] =
                   IF current_task_id = NIL_ID
                   THEN [NoSub EXCEPT !.n = subs[t].n + 1,
                                      !.exc = "AssertionError"]
                   ELSE [pc |-> "captured", task_index |-> task_index,
                         driver_id |-> task_driver_id, n |-> subs[t].n + 1,
                         exc |-> "none"]]
    /\ UNCHANGED <<connected, mode, task_driver_id, current_task_id, put_index,
                   actor_id, actor_init_error, objectVars, loopVars, apiVars,
                   go, rayletVars, threadVars, submitVars, countVars,
                   clientVars, sessionVars, lastSession, exporters,
                   lastPutObject, errorVars, lockVars, sessions, state_lock, gets>>

\* submit_task in a thread other than the main one, worker.py:620-633: the
\* lock released, the Task is built with self.current_task_id as it is now
\* and handed to the raylet
SubmitBuildTask(t) ==
    /\ subs[t].pc = "captured"
    /\ submitted' = Append(submitted,
                           [driver_id |-> subs[t].driver_id, args |-> <<>>,
                            parent_task_id |-> current_task_id,
                            parent_counter |-> subs[t].task_index,
                            resources |-> Resources(<<>>)])
    /\ subs' = [subs EXCEPT ![t].pc = "out"]
    /\ UNCHANGED <<coreVars, threadVars, nsubmits, lastSubmit, countVars,
                   clientVars, sessionVars, lastSession, exporters,
                   lastPutObject, errorVars, lockVars, sessions, state_lock, gets>>

(***************************************************************************)
(* The execution lock of a worker.  retrieve_and_deserialize, on a class   *)
(* that was not imported yet, releases it where the mode is WORKER_MODE,   *)
(* sleeps and takes it again (worker.py:406-414); the import thread takes  *)
(* it to import what was exported.                                         *)
(***************************************************************************)
\* the class an object needs has not been imported by this process
ClassMissing == import_thread.n = 0

\* variant: the lock is released only by the thread that took it
ReleasesLock_IfOwner(m, holder, thread) == m = WORKER_MODE /\ holder = thread

\* worker.py:410, 413: the test that guards release and acquire
ReleasesLock(m, holder, thread) == m = WORKER_MODE

\* the main thread, inside a get of the task body, meets the missing class
\* and releases the lock (worker.py:406-411)
MainBackoffRelease ==
    /\ pc = "body" /\ go.pc = "off"
    /\ ClassMissing
    /\ backoff.n < MaxBackoffs
    /\ ReleasesLock(mode, lock, "main")
    /\ lock # "free"
    /\ lock' = "free"
    /\ pc' = "backoff"
    /\ backoff' = [backoff EXCEPT !.n = @ + 1]
    /\ UNCHANGED <<workerVars, objectVars, task, arguments, outputs, ntasks,
                   tlog, apiVars, go, rayletVars, sysButConc, sessions,
                   state_lock, subs, gets, import_thread>>

\* the sleep of the main thread is over and it takes the lock again
\* (worker.py:412-414)
MainBackoffAcquire ==
    /\ pc = "backoff"
    /\ lock = "free"
    /\ lock' = "main"
    /\ pc' = "body"
    /\ UNCHANGED <<workerVars, objectVars, task, arguments, outputs, ntasks,
                   tlog, apiVars, go, rayletVars, sysButConc, sessions,
                   state_lock, subs, gets, import_thread, backoff>>

\* a thread other than the main one, inside a get, meets the missing class
\* and calls release (worker.py:406-411), which raises RuntimeError on a
\* lock that is not held
ThreadBackoffRelease ==
    /\ ThreadCanCall
    /\ ClassMissing
    /\ backoff.thread = "out"
    /\ backoff.n < MaxBackoffs
    /\ IF ReleasesLock(mode, lock, "thread")
       THEN IF lock = "free"
            THEN /\ backoff' = [backoff EXCEPT !.n = @ + 1,
                                               !.exc = "RuntimeError"]
                 /\ UNCHANGED lock
            ELSE /\ lock' = "free"
                 /\ backoff' = [backoff EXCEPT !.n = @ + 1,
                                               !.thread = "sleeping"]
       ELSE /\ backoff' = [backoff EXCEPT !.n = @ + 1, !.thread = "sleeping"]
            /\ UNCHANGED lock
    /\ UNCHANGED <<coreVars, sysButConc, sessions, state_lock, subs, gets,
                   import_thread>>

\* the sleep of the other thread is over and it takes the lock
\* (worker.py:412-414); it goes on without ever releasing it
ThreadBackoffAcquire ==
    /\ backoff.thread = "sleeping"
    /\ IF ReleasesLock(mode, lock, "thread")
       THEN /\ lock = "free"
            /\ lock' = "thread"
       ELSE UNCHANGED lock
    /\ backoff' = [backoff EXCEPT !.thread = "out"]
    /\ UNCHANGED <<coreVars, sysButConc, sessions, state_lock, subs, gets,
                   import_thread>>

\* the import thread takes the execution lock to import an export
ImportAcquire ==
    /\ connected /\ mode = WORKER_MODE
    /\ import_thread.pc = "idle"
    /\ import_thread.n < MaxImports
    /\ lock = "free"
    /\ lock' = "import"
    /\ import_thread' = [import_thread EXCEPT !.pc = "importing"]
    /\ UNCHANGED <<coreVars, sysButConc, sessions, state_lock, subs, gets,
                   backoff>>

\* the import is done and the import thread releases the lock
ImportRelease ==
    /\ import_thread.pc = "importing"
    /\ lock' = "free"
    /\ import_thread' = [pc |-> "idle", n |-> import_thread.n + 1]
    /\ UNCHANGED <<coreVars, sysButConc, sessions, state_lock, subs, gets,
                   backoff>>

(***************************************************************************)
(* The session of a driver: init, shutdown, and the functions it asks to   *)
(* run on all workers.                                                     *)
(***************************************************************************)
CanCallSession ==
    /\ pc \in {"not_connected", "driver"}
    /\ go.pc = "off"
    /\ lastSession.n < MaxSessionCalls

SessionCall(op) ==
    [NoSession EXCEPT !.n = lastSession.n + 1, !.op = op,
                      !.connected = connected]

InitCall(ignore_reinit_error, use_raylet) ==
    [SessionCall("init") EXCEPT !.ignore_reinit_error = ignore_reinit_error,
                                !.use_raylet = use_raylet]

RunFunctionCall(function) ==
    [SessionCall("run_function_on_all_workers") EXCEPT !.function = function]

\* the values of init's deprecated use_raylet argument
UseRaylet == {"None", "True", "False"}

\* variant: a second init connects again
AlreadyConnected_Never(is_connected) == FALSE

\* worker.py:1661: the test on global_worker.connected
AlreadyConnected(is_connected) == is_connected

\* init (worker.py:1527-1702); _init starts the processes where needed and
\* calls connect in driver_mode, whose first statements assert that the
\* worker is not connected (worker.py:1923-1926)
RayInit(ignore_reinit_error, use_raylet, m) ==
    /\ CanCallSession
    /\ m \in {SCRIPT_MODE, LOCAL_MODE}
    /\ IF use_raylet = "False"
       THEN /\ lastSession' = [InitCall(ignore_reinit_error, use_raylet) EXCEPT
                                 !.exc = "DeprecationWarning"]
            /\ UNCHANGED <<coreVars, threadVars, submitVars, countVars,
                           clientVars, sessionVars, exporters,
                           lastPutObject, concVars, errorVars>>
       ELSE IF AlreadyConnected(connected)
       THEN /\ lastSession' = [InitCall(ignore_reinit_error, use_raylet) EXCEPT
                                 !.exc = IF ignore_reinit_error
                                         THEN "none" ELSE "Exception"]
            /\ UNCHANGED <<coreVars, threadVars, submitVars, countVars,
                           clientVars, sessionVars, exporters,
                           lastPutObject, concVars, errorVars>>
       ELSE IF connected \/ cached_functions_to_run.none
       THEN /\ lastSession' = [InitCall(ignore_reinit_error, use_raylet) EXCEPT
                                 !.exc = "AssertionError"]
            /\ UNCHANGED <<coreVars, threadVars, submitVars, countVars,
                           clientVars, sessionVars, exporters,
                           lastPutObject, concVars, errorVars>>
       ELSE /\ lastSession' = InitCall(ignore_reinit_error, use_raylet)
            /\ DoConnect(m)

\* worker.py:1733-1734: the store client is disconnected where there is one,
\* and the attribute stays
StoreClientAfterShutdown(client) ==
    IF client = "absent" THEN "absent" ELSE "disconnected"

\* shutdown (worker.py:1717-1747) with disconnect (worker.py:2177-2186)
Shutdown ==
    /\ CanCallSession
    /\ connected' = FALSE
    /\ cached_functions_to_run' = Cached(<<>>)
    /\ serialization_context_map' = <<>>
    /\ raylet_client' = "absent"
    /\ plasma_client' = StoreClientAfterShutdown(plasma_client)
    /\ plasma_disconnects' =
          IF plasma_client = "absent"
          THEN plasma_disconnects ELSE plasma_disconnects + 1
    /\ lastSession' = [SessionCall("shutdown") EXCEPT
                          !.cleanup = (mode = SCRIPT_MODE)]
    /\ mode' = None
    /\ pc' = "not_connected"
    /\ contexts' = [contexts EXCEPT !.of = <<>>, !.created = <<>>,
                                    !.returned = <<>>, !.base = contexts.made]
    /\ UNCHANGED <<task_driver_id, current_task_id, task_index, put_index,
                   actor_id, actor_init_error, store, task, arguments, outputs,
                   ntasks, tlog, apiVars, go, rayletVars, threads, tputs,
                   submitVars, countVars, redis_client, redis, ran,
                   connections, exporters, lastPutObject, concVars, errorVars>>

\* the functions a program asks to run on all workers
UserFunctions == {"f1", "f2"}

\* Worker.run_function_on_all_workers (worker.py:635-691)
RunFunctionOnAllWorkers(function) ==
    /\ CanCallSession
    /\ IF mode = None
       THEN /\ cached_functions_to_run' =
                  Cached(Append(cached_functions_to_run.list, function))
            /\ lastSession' = RunFunctionCall(function)
            /\ UNCHANGED <<ran, redis>>
       ELSE /\ ran' = Append(ran, function)
            /\ IF redis_client = "absent"
               THEN /\ lastSession' = [RunFunctionCall(function) EXCEPT
                                         !.exc = "AttributeError"]
                    /\ UNCHANGED redis
               ELSE /\ redis' = ExportFunction(redis, function)
                    /\ lastSession' = RunFunctionCall(function)
            /\ UNCHANGED cached_functions_to_run
    /\ UNCHANGED <<coreVars, threadVars, submitVars, countVars, clientVars,
                   redis_client, connections, plasma_disconnects, exporters,
                   lastPutObject, concVars, errorVars>>

(***************************************************************************)
(* Worker.get_serialization_context called by the threads of a process.    *)
(* The method takes no lock: the test of the map, the making of a context  *)
(* and the reading of the map are steps of the calling thread, and the     *)
(* steps of different threads interleave.  A context is the number of its  *)
(* making.                                                                 *)
(***************************************************************************)
\* worker.py:229: the test of the map
GetContextTest(t, driver_id) ==
    /\ connected
    /\ CanCall
    /\ contexts.calls[t].pc = "out"
    /\ contexts.calls[t].n < MaxContextCalls
    /\ contexts' = [contexts EXCEPT
          !.calls[t] = [pc |-> IF driver_id \in DOMAIN serialization_context_map
                               THEN "return" ELSE "initialize",
                        driver_id |-> driver_id,
                        n |-> contexts.calls[t].n + 1,
                        exc |-> "none"]]
    /\ UNCHANGED <<coreVars, threads, tputs, notThreads>>

\* worker.py:230, _initialize_serialization (worker.py:1089-1136): a new
\* context takes the place the map has for the driver id
GetContextInitialize(t) ==
    /\ contexts.calls[t].pc = "initialize"
    /\ LET driver_id == contexts.calls[t].driver_id
       IN  /\ serialization_context_map' =
                  (driver_id :> {}) @@ serialization_context_map
           /\ contexts' = [contexts EXCEPT
                 !.made = @ + 1,
                 !.of = (driver_id :> contexts.made + 1) @@ @,
                 !.created = Append(@, driver_id),
                 !.calls[t].pc = "return"]
    /\ UNCHANGED <<workerVars, store, loopVars, apiVars, go, rayletVars,
                   threads, tputs, notThreads>>

\* worker.py:231: the context the map holds now is returned; the lookup
\* raises KeyError if a disconnect has emptied the map meanwhile
GetContextReturn(t) ==
    /\ contexts.calls[t].pc = "return"
    /\ LET driver_id == contexts.calls[t].driver_id
       IN  IF driver_id \in DOMAIN contexts.of
           THEN contexts' = [contexts EXCEPT
                  !.returned = Append(@, [driver_id |-> driver_id,
                                          context |-> contexts.of[driver_id]]),
                  !.calls[t].pc = "out"]
           ELSE contexts' = [contexts EXCEPT
                  !.calls[t].pc = "out", !.calls[t].exc = "KeyError"]
    /\ UNCHANGED <<coreVars, threads, tputs, notThreads>>

(***************************************************************************)
(* Several connected drivers of one cluster calling                        *)
(* run_function_on_all_workers.  Each call is a sequence of steps of its   *)
(* driver: the function runs locally, then setnx, hmset and rpush reach    *)
(* the control plane one by one, interleaved with the other drivers'.      *)
(***************************************************************************)
ExportCalls ==
    LET RECURSIVE Sum(_)
        Sum(d) == IF d = 0 THEN 0 ELSE exporters[d].calls + Sum(d - 1)
    IN  Sum(NumDrivers)

CountOf(f, x) == IF x \in DOMAIN f THEN f[x] ELSE 0

\* worker.py:661-667: the function is pickled and run on this driver
ExportRunLocally(d, function) ==
    /\ exporters[d].pc = "out"
    /\ ExportCalls < MaxExportCalls
    /\ exporters' = [exporters EXCEPT
          ![d].pc = "ran", ![d].function = function, ![d].calls = @ + 1,
          ![d].runs = (function :> CountOf(@, function) + 1) @@ @]
    /\ UNCHANGED <<coreVars, threadVars, submitVars, countVars, clientVars,
                   sessionVars, lastSession, lastPutObject, concVars, errorVars>>

\* worker.py:669-673
ExportSetnx(d) ==
    /\ exporters[d].pc = "ran"
    /\ LET l == setnx(redis, LockKey(FunctionKey(exporters[d].function)))
       IN  /\ redis' = l.redis
           /\ exporters' = [exporters EXCEPT ![d].pc =
                                IF MustExport(l.set) THEN "locked" ELSE "out"]
    /\ UNCHANGED <<coreVars, threadVars, submitVars, countVars, clientVars,
                   cached_functions_to_run, redis_client, ran, connections,
                   plasma_disconnects, lastSession, lastPutObject, concVars, errorVars>>

\* worker.py:675-685
ExportHmset(d) ==
    /\ exporters[d].pc = "locked"
    /\ LET key == FunctionKey(exporters[d].function)
       IN  /\ redis' = hmset(redis, key)
           /\ exporters' = [exporters EXCEPT
                 ![d].pc = "written",
                 ![d].wrote = (key :> CountOf(@, key) + 1) @@ @]
    /\ UNCHANGED <<coreVars, threadVars, submitVars, countVars, clientVars,
                   cached_functions_to_run, redis_client, ran, connections,
                   plasma_disconnects, lastSession, lastPutObject, concVars, errorVars>>

\* worker.py:686
ExportRpush(d) ==
    /\ exporters[d].pc = "written"
    /\ LET key == FunctionKey(exporters[d].function)
       IN  /\ redis' = rpush(redis, key)
           /\ exporters' = [exporters EXCEPT
                 ![d].pc = "out",
                 ![d].pushed = (key :> CountOf(@, key) + 1) @@ @]
    /\ UNCHANGED <<coreVars, threadVars, submitVars, countVars, clientVars,
                   cached_functions_to_run, redis_client, ran, connections,
                   plasma_disconnects, lastSession, lastPutObject, concVars, errorVars>>

(***************************************************************************)
(* Worker.put_object called directly, with an object id of the caller's    *)
(* choice (put, the task loop and the actor code all call it).             *)
(***************************************************************************)
PutObjectIDs == {compute_put_id(DriverTaskID, 1), ReturnID(TaskID(1), 1)}

\* Worker.put_object (worker.py:329-376)
PutObject(object_id, value) ==
    /\ connected /\ mode # LOCAL_MODE
    /\ CanCall
    /\ LET r == put_object(CurEnv, task_driver_id, object_id, value)
       IN  /\ store' = r.env.store
           /\ serialization_context_map' = r.env.ctx
           /\ lastPutObject' =
                 [NoPutObject EXCEPT
                     !.n = 1, !.object_id = object_id, !.value = value,
                     !.before = IF object_id \in DOMAIN store
                                THEN store[object_id] ELSE ObjectNotAvailable,
                     !.exc = r.exc]
    /\ UNCHANGED <<workerVars, loopVars, apiVars, go, rayletVars, threadVars,
                   submitVars, countVars, clientVars, sessionVars, lastSession,
                   exporters, errorVars, concVars>>

(***************************************************************************)
(* Worker.store_and_register on a value made of objects of classes that    *)
(* pyarrow cannot serialize yet, one step per put and per registration.    *)
(* A class is described by what its registration meets:                    *)
(*   "dict"    check_serializable accepts it, use_dict registers it        *)
(*   "pickle"  use_dict fails, use_pickle registers it on all workers      *)
(*   "local"   use_dict fails, the class cannot be pickled, so use_pickle  *)
(*             raises CloudPickleError, and local=True registers it        *)
(***************************************************************************)
ClassKinds == {"dict", "pickle", "local"}
ClassLists == SeqsUpTo(ClassKinds, MaxClasses)

\* a plasma_client.put, or a call of register_custom_serializer on class cls
Event(op, cls) == [op |-> op, cls |-> cls]

\* variant: the number of puts is not limited
ReachedDepth_Never(counter, depth) == FALSE

\* worker.py:279: the test that ends the loop with an Exception
ReachedDepth(counter, depth) == counter = depth

\* the classes of the value that have no serializer yet, and the first of
\* them, which the put reports as e.example_object
Unregistered(classes, registered) == DOMAIN classes \ registered
ExampleObject(classes, registered) ==
    CHOOSE i \in Unregistered(classes, registered) :
        \A j \in Unregistered(classes, registered) : i <= j

\* worker.py:294-326: the calls of register_custom_serializer that a
\* SerializationCallbackError on class cls of this kind leads to
RegistrationAttempts(kind, cls) ==
    CASE kind = "dict" -> <<Event("use_dict", cls)>>
      [] kind = "pickle" -> <<Event("use_dict", cls), Event("use_pickle", cls)>>
      [] OTHER -> <<Event("use_dict", cls), Event("use_pickle", cls),
                    Event("use_pickle_local", cls)>>

\* worker.py:277-278: the call begins with counter = 0
StoreAndRegisterCall(object_id, classes, depth) ==
    /\ connected /\ mode # LOCAL_MODE
    /\ CanCall
    /\ lastPutObject.pc = "out"
    /\ lastPutObject' =
          [NoPutObject EXCEPT !.n = 1, !.object_id = object_id,
                              !.value = Value("val", Len(classes)),
                              !.classes = classes, !.depth = depth,
                              !.pc = "loop"]
    /\ UNCHANGED <<coreVars, threadVars, submitVars, countVars, clientVars,
                   sessionVars, lastSession, exporters, errorVars, concVars>>

\* worker.py:279-293: the test of counter, and the put, which stores the
\* object, or raises PlasmaObjectExists, or reports a class without a
\* serializer
StoreAndRegisterPut ==
    /\ lastPutObject.pc = "loop"
    /\ LET c == lastPutObject
       IN  IF ReachedDepth(c.counter, c.depth)
           THEN /\ lastPutObject' = [c EXCEPT !.pc = "out",
                                              !.exc = "Exception"]
                /\ UNCHANGED store
           ELSE IF Unregistered(c.classes, c.registered) # {}
           THEN /\ lastPutObject' =
                      [c EXCEPT !.counter = @ + 1,
                                !.log = Append(@, Event("put", 0)),
                                !.example = ExampleObject(c.classes,
                                                          c.registered),
                                !.pc = "register"]
                /\ UNCHANGED store
           ELSE IF c.object_id \in DOMAIN store
           THEN /\ lastPutObject' =
                      [c EXCEPT !.counter = @ + 1,
                                !.log = Append(@, Event("put", 0)),
                                !.pc = "out", !.exc = "PlasmaObjectExists"]
                /\ UNCHANGED store
           ELSE /\ lastPutObject' =
                      [c EXCEPT !.counter = @ + 1,
                                !.log = Append(@, Event("put", 0)),
                                !.pc = "out"]
                /\ store' = c.object_id :> c.value @@ store
    /\ UNCHANGED <<workerVars, serialization_context_map, loopVars, apiVars,
                   go, rayletVars, threadVars, submitVars, countVars,
                   clientVars, sessionVars, lastSession, exporters, errorVars,
                   concVars>>

\* worker.py:294-326: the handler of SerializationCallbackError registers
\* the class of e.example_object, and the loop goes round
StoreAndRegisterRegister ==
    /\ lastPutObject.pc = "register"
    /\ LET c == lastPutObject
       IN  lastPutObject' =
              [c EXCEPT !.log = @ \o RegistrationAttempts(c.classes[c.example],
                                                          c.example),
                        !.registered = @ \cup {c.example},
                        !.pc = "loop"]
    /\ UNCHANGED <<coreVars, threadVars, submitVars, countVars, clientVars,
                   sessionVars, lastSession, exporters, errorVars, concVars>>

(***************************************************************************)
(* Error messages on the driver.  The control plane keeps every error in   *)
(* its error table and publishes it on one channel for all drivers; the    *)
(* driver's listener thread reads the channel, its printer thread drains   *)
(* the queue of task errors.  An error is the record of its number, the    *)
(* job it belongs to and its type.                                         *)
(***************************************************************************)
NIL_JOB_ID == NIL_ID
TASK_PUSH_ERROR == "task"
ErrorTypes == {TASK_PUSH_ERROR, "worker_died"}
JobIDs == {DriverID(1), DriverID(2), NIL_JOB_ID}

ErrorMessage(n, job_id, type) == [n |-> n, job_id |-> job_id, type |-> type]

\* what the threads do with an error: print it (logger.error) or suppress
\* it (logger.debug)
Logged(error, by, what) == [error |-> error, by |-> by, what |-> what]

\* time passes; nothing reads the clock before the driver's threads run
Tick ==
    /\ listener # "off"
    /\ now < MaxTime
    /\ now' = now + 1
    /\ UNCHANGED <<coreVars, threadVars, submitVars, countVars, clientVars,
                   sessionVars, lastSession, exporters, lastPutObject, concVars,
                   error_table, pubsub, npublished, task_error_queue, elog,
                   errorThreads, raiseVars>>

\* some process pushes an error: it enters the error table and reaches the
\* subscribers of the channel
Publish(job_id, type) ==
    /\ npublished < MaxMessages
    /\ npublished' = npublished + 1
    /\ LET msg == ErrorMessage(npublished + 1, job_id, type)
       IN  /\ error_table' = Append(error_table, msg)
           /\ pubsub' = IF listener \in {"subscribed", "listening"}
                        THEN Append(pubsub, msg) ELSE pubsub
    /\ UNCHANGED <<coreVars, threadVars, submitVars, countVars, clientVars,
                   sessionVars, lastSession, exporters, lastPutObject, concVars, now,
                   task_error_queue, elog, errorThreads, raiseVars>>

(***************************************************************************)
(* One call of retrieve_and_deserialize on objects whose class is missing  *)
(* until the import thread has imported it, by the main thread (caller     *)
(* "main") or by another thread (caller "thread"): the attempt, the sleep  *)
(* with the execution lock released, and the warning once error_timeout    *)
(* has passed.                                                             *)
(***************************************************************************)
WAIT_FOR_CLASS_PUSH_ERROR == "wait_for_class"

\* the values of error_timeout, in the unit of the clock
ErrorTimeouts == {1, 2}

\* worker.py:378-381: the call begins
RetrieveCall(caller, error_timeout) ==
    /\ connected /\ mode # LOCAL_MODE
    /\ backoff.caller = "none"
    /\ backoff.n < MaxBackoffs
    /\ IF caller = "main" THEN pc \in {"driver", "body"} ELSE ThreadCanCall
    /\ backoff' = [NoBackoff EXCEPT !.n = backoff.n + 1,
                                    !.caller = caller,
                                    !.start_time = now,
                                    !.error_timeout = error_timeout]
    /\ UNCHANGED <<coreVars, sysButConc, sessions, state_lock, subs, gets,
                   lock, import_thread>>

\* worker.py:382-411: plasma_client.get returns the results once the class
\* is there; until then it raises DeserializationCallbackError, and the
\* handler releases the execution lock where the mode is WORKER_MODE, which
\* raises RuntimeError on a lock that is not held, and goes to sleep
RetrieveTry ==
    /\ backoff.caller # "none"
    /\ backoff.thread = "out"
    /\ IF ~ClassMissing
       THEN /\ backoff' = [backoff EXCEPT !.caller = "none",
                                          !.returned = TRUE]
            /\ UNCHANGED lock
       ELSE IF ReleasesLock(mode, lock, backoff.caller)
       THEN IF lock = "free"
            THEN /\ backoff' = [backoff EXCEPT !.caller = "none",
                                               !.exc = "RuntimeError"]
                 /\ UNCHANGED lock
            ELSE /\ lock' = "free"
                 /\ backoff' = [backoff EXCEPT !.thread = "sleeping"]
       ELSE /\ backoff' = [backoff EXCEPT !.thread = "sleeping"]
            /\ UNCHANGED lock
    /\ UNCHANGED <<coreVars, sysButConc, sessions, state_lock, subs, gets,
                   import_thread>>

\* worker.py:412-427: the sleep, which takes slept units of the clock, is
\* over; the lock is taken again where the mode is WORKER_MODE, and the
\* warning is pushed to the driver of the task in hand if error_timeout has
\* passed and this call has not pushed it yet
RetrieveSleep(slept) ==
    /\ backoff.caller # "none"
    /\ backoff.thread = "sleeping"
    /\ now + slept <= MaxTime
    /\ now' = now + slept
    /\ IF ReleasesLock(mode, lock, backoff.caller)
       THEN /\ lock = "free"
            /\ lock' = backoff.caller
       ELSE UNCHANGED lock
    /\ IF now' - backoff.start_time > backoff.error_timeout
       THEN /\ IF ~backoff.warning_sent
               THEN LET msg == ErrorMessage(npublished + 1, task_driver_id,
                                            WAIT_FOR_CLASS_PUSH_ERROR)
                    IN  /\ npublished' = npublished + 1
                        /\ error_table' = Append(error_table, msg)
                        /\ pubsub' = IF listener \in {"subscribed", "listening"}
                                     THEN Append(pubsub, msg) ELSE pubsub
                        /\ backoff' = [backoff EXCEPT
                                          !.thread = "out",
                                          !.warning_sent = TRUE,
                                          !.warnings = @ + 1,
                                          !.warned_at = now']
               ELSE /\ backoff' = [backoff EXCEPT !.thread = "out"]
                    /\ UNCHANGED <<npublished, error_table, pubsub>>
       ELSE /\ backoff' = [backoff EXCEPT !.thread = "out"]
            /\ UNCHANGED <<npublished, error_table, pubsub>>
    /\ UNCHANGED <<coreVars, threadVars, submitVars, countVars, clientVars,
                   sessionVars, lastSession, exporters, lastPutObject,
                   task_error_queue, elog, errorThreads, raiseVars, sessions,
                   state_lock, subs, gets, import_thread>>

\* global_state.error_messages(job_id): the errors of the table that belong
\* to the job
error_messages(table, job_id) ==
    Pick(table, {i \in DOMAIN table : table[i].job_id = job_id})

\* listen_error_messages_raylet, worker.py:1802-1812: the thread subscribes
\* to the channel
ListenerSubscribes ==
    /\ listener = "start"
    /\ listener' = "subscribed"
    /\ UNCHANGED <<coreVars, threadVars, submitVars, countVars, clientVars,
                   sessionVars, lastSession, exporters, lastPutObject, concVars,
                   messageVars, printer, raiseVars>>

\* listen_error_messages_raylet, worker.py:1815-1819: the thread prints the
\* errors the table holds for this driver
ListenerPrintsTable ==
    /\ listener = "subscribed"
    /\ listener' = "listening"
    /\ LET errors == error_messages(error_table, task_driver_id)
       IN  elog' = elog \o [i \in DOMAIN errors |->
                               Logged(errors[i].n, "listener", "printed")]
    /\ UNCHANGED <<coreVars, threadVars, submitVars, countVars, clientVars,
                   sessionVars, lastSession, exporters, lastPutObject, concVars, now,
                   error_table, pubsub, npublished, task_error_queue, printer,
                   raiseVars>>

\* variant: the listener takes the errors of every job
AcceptsJob_Any(job_id, driver_id) == TRUE

\* worker.py:1830-1834: the jobs whose errors the listener takes
AcceptsJob(job_id, driver_id) == job_id \in {driver_id, NIL_JOB_ID}

\* one round of the listener's loop (worker.py:1822-1842)
Listen ==
    /\ listener = "listening"
    /\ pubsub # <<>>
    /\ pubsub' = Tail(pubsub)
    /\ LET msg == Head(pubsub)
       IN  IF ~AcceptsJob(msg.job_id, task_driver_id)
           THEN UNCHANGED <<task_error_queue, elog>>
           ELSE IF msg.type = TASK_PUSH_ERROR
           THEN /\ task_error_queue' =
                      Append(task_error_queue, [error |-> msg.n, t |-> now])
                /\ UNCHANGED elog
           ELSE /\ elog' = Append(elog, Logged(msg.n, "listener", "printed"))
                /\ UNCHANGED task_error_queue
    /\ UNCHANGED <<coreVars, threadVars, submitVars, countVars, clientVars,
                   sessionVars, lastSession, exporters, lastPutObject, concVars, now,
                   error_table, npublished, errorThreads, raiseVars>>

\* print_error_messages_raylet, worker.py:1784: task_error_queue.get()
PrinterGets ==
    /\ printer.pc = "get"
    /\ task_error_queue # <<>>
    /\ printer' = [pc |-> "wait", error |-> Head(task_error_queue).error,
                   t |-> Head(task_error_queue).t]
    /\ task_error_queue' = Tail(task_error_queue)
    /\ UNCHANGED <<coreVars, threadVars, submitVars, countVars, clientVars,
                   sessionVars, lastSession, exporters, lastPutObject, concVars, now,
                   error_table, pubsub, npublished, elog, listener, raiseVars>>

\* worker.py:1787: the loop of sleep(1) ends
GraceOver(t, time) == ~(t + UNCAUGHT_ERROR_GRACE_PERIOD > time)

\* variant: errors are suppressed only by raises at the same second or later
Suppresses_NoGrace(t, raise_time) == t <= raise_time

\* worker.py:1789
Suppresses(t, raise_time) == t < raise_time + UNCAUGHT_ERROR_GRACE_PERIOD

\* print_error_messages_raylet, worker.py:1787-1793: the grace period of the
\* event in hand is over, and the event is suppressed or printed
PrinterExamines ==
    /\ printer.pc = "wait"
    /\ GraceOver(printer.t, now)
    /\ elog' = Append(elog,
                      Logged(printer.error, "printer",
                             IF Suppresses(printer.t,
                                           last_task_error_raise_time)
                             THEN "suppressed" ELSE "printed"))
    /\ printer' = Printer("get")
    /\ UNCHANGED <<coreVars, threadVars, submitVars, countVars, clientVars,
                   sessionVars, lastSession, exporters, lastPutObject, concVars, now,
                   error_table, pubsub, npublished, task_error_queue, listener,
                   raiseVars>>

\* a get of the driver that may raise
RaisingGet ==
    /\ Cardinality(raise_times \cup {now}) <= MaxRaises
    /\ Get(<<ExternalID(1)>>)

(***************************************************************************)
(* connect when ray.services.check_version_info raises.                    *)
(***************************************************************************)
\* ray_constants.VERSION_MISMATCH_PUSH_ERROR
VERSION_MISMATCH_PUSH_ERROR == "version_mismatch"

\* variant: a worker raises to its caller as a driver does
VersionMismatchRaises_Always(m) == TRUE

\* worker.py:1982-1985: only a driver re-raises what the version check raised
VersionMismatchRaises(m) == m = SCRIPT_MODE

\* connect (worker.py:1902-2174) with a version check that raises
\* (worker.py:1980-1992).  A driver has set connected, its mode, its ids and
\* its redis client when the exception leaves connect; a worker pushes the
\* error with driver_id=None and goes on with the rest of connect.
ConnectVersionMismatch(m) ==
    /\ m \in {SCRIPT_MODE, WORKER_MODE}
    /\ IF VersionMismatchRaises(m)
       THEN /\ ~connected
            /\ ~cached_functions_to_run.none
            /\ pc = "not_connected"
            /\ connected' = TRUE
            /\ mode' = m
            /\ actor_id' = NIL_ACTOR_ID
            /\ task_driver_id' = IF m # WORKER_MODE THEN DriverID(1)
                                 ELSE task_driver_id
            /\ redis_client' = "connected"
            /\ pc' = "raised"
            /\ lastSession' = [SessionCall("connect") EXCEPT !.exc = "Exception"]
            /\ UNCHANGED <<current_task_id, task_index, put_index,
                           actor_init_error, objectVars, task, arguments,
                           outputs, ntasks, tlog, apiVars, go, rayletVars,
                           threadVars, submitVars, countVars, raylet_client,
                           plasma_client, cached_functions_to_run, redis, ran,
                           connections, plasma_disconnects, exporters,
                           lastPutObject, errorVars, concVars>>
       ELSE /\ ConnectBody(m)
            /\ current_task_id' = ConnectTaskID(m, DriverTaskOf(connections))
            /\ npublished < MaxMessages
            /\ npublished' = npublished + 1
            /\ LET msg == ErrorMessage(npublished + 1, NIL_JOB_ID,
                                       VERSION_MISMATCH_PUSH_ERROR)
               IN  /\ error_table' = Append(error_table, msg)
                   /\ pubsub' = IF listener \in {"subscribed", "listening"}
                                THEN Append(pubsub, msg) ELSE pubsub
            /\ lastSession' = SessionCall("connect")
            /\ UNCHANGED concVars

\* the exception that left connect (worker.py:1982-1984) is handled by the
\* program, which goes on; the worker keeps what connect had set
ExceptionHandled ==
    /\ pc = "raised"
    /\ pc' = "driver"
    /\ UNCHANGED <<workerVars, objectVars, task, arguments, outputs, ntasks,
                   tlog, apiVars, go, rayletVars, sysVars>>

(***************************************************************************)
(* connect with an object_id_seed, and the sessions of one driver program. *)
(***************************************************************************)
Seeds == {Seed(1), Seed(2)}

\* variant: the seed given is not used
SeedBytes_Random(object_id_seed, c) == DriverTaskOf(c)

\* worker.py:2068-2076: the bytes drawn for the id of the driver task's
\* parent, from the seed where one is given and at random otherwise
SeedBytes(object_id_seed, c) ==
    IF object_id_seed # NoSeed THEN SeededID(object_id_seed)
    ELSE DriverTaskOf(c)

\* a driver session about which nothing is known yet but its seed and the
\* task id connect gave it
Session(object_id_seed, driver_task_id) ==
    [seed |-> object_id_seed, task_id |-> driver_task_id, calls |-> <<>>]

\* connect(info, object_id_seed, mode=SCRIPT_MODE) (worker.py:1902-2174):
\* current_task_id becomes the id of the driver task, whose parent id is
\* drawn from the seed and whose parent counter is 0 (worker.py:2064-2109)
ConnectSeeded(object_id_seed) ==
    /\ Len(sessions) < MaxSessions
    /\ ConnectBody(SCRIPT_MODE)
    /\ LET driver_task_id ==
               Task_task_id(SeedBytes(object_id_seed, connections), 0)
       IN  /\ current_task_id' = ConnectTaskID(SCRIPT_MODE, driver_task_id)
           /\ sessions' = Append(sessions,
                                 Session(object_id_seed, driver_task_id))
    /\ UNCHANGED <<error_table, pubsub, npublished, concRest, lastSession>>

\* _init without a redis_address starts the processes of a new cluster
\* (worker.py:1421): its store and its control plane are empty
NewCluster ==
    /\ ~connected
    /\ pc = "not_connected"
    /\ store # <<>>
    /\ store' = <<>>
    /\ redis' = EmptyRedis
    /\ UNCHANGED <<workerVars, serialization_context_map, blocked, requested,
                   loopVars, apiVars, go, threadVars,
                   submitVars, countVars, raylet_client, plasma_client,
                   cached_functions_to_run, redis_client, ran, connections,
                   plasma_disconnects, lastSession, exporters, lastPutObject,
                   errorVars, concVars>>

(***************************************************************************)
(* The specifications.                                                     *)
(***************************************************************************)
\* a worker process and the tasks it is given
NextLoop ==
    \/ Connect(WORKER_MODE)
    \/ \E t \in PossibleTasks(ntasks + 1, actor_id) : GetTask(t)
    \/ \E low_memory \in BOOLEAN : ProcessTask(low_memory)
    \/ NextArgument
    \/ ArgumentFetched
    \/ InvokeBody
    \/ BodyRaises
    \/ \E out \in PossibleOutputs(task.num_returns) : BodyReturns(out)
    \/ StoreOutputs
    \/ ResetTaskState
    \/ GetObjectRetrieve
    \/ GetObjectLoop
    \/ \E id \in ExternalIDs, v \in ExternalValues : ObjectArrives(id, v)

SpecLoop == Init /\ [][NextLoop]_vars

\* the life of an actor: the creation task, then methods, each with one
\* return value (besides the dummy object) and at most one argument, passed
\* by id
ActorTasks(n, worker_actor_id) ==
    {t \in PossibleTasks(n, worker_actor_id) :
        /\ IsActorTask(t)
        /\ t.arguments \in {<<>>, <<ArgID(ExternalID(1))>>}
        /\ t.num_returns = 1}

NextActor ==
    \/ Connect(WORKER_MODE)
    \/ \E t \in ActorTasks(ntasks + 1, actor_id) : GetActorTask(t)
    \/ \E low_memory \in BOOLEAN : ProcessTask(low_memory)
    \/ NextArgument
    \/ ArgumentFetched
    \/ InvokeBody
    \/ BodyRaises
    \/ \E out \in PossibleOutputs(task.num_returns) : BodyReturns(out)
    \/ StoreOutputs
    \/ ResetTaskState
    \/ GetObjectRetrieve
    \/ GetObjectLoop
    \/ \E v \in ExternalValues : ObjectArrives(ExternalID(1), v)

SpecActor == Init /\ [][NextActor]_vars

\* tasks whose bodies are the programs of NextApi
ApiTasks(n, worker_actor_id) ==
    {t \in PossibleTasks(n, worker_actor_id) :
        /\ ~IsActorTask(t)
        /\ t.arguments = <<>>
        /\ t.num_returns = 0
        /\ t.driver_id = DriverID(1)}

\* a program storing and fetching objects: a driver in SCRIPT_MODE, or the
\* body of a task in WORKER_MODE
NextStore ==
    \/ \E m \in {SCRIPT_MODE, WORKER_MODE} : Connect(m)
    \/ \E t \in ApiTasks(ntasks + 1, actor_id) : GetTask(t)
    \/ ProcessTask(FALSE)
    \/ NextArgument
    \/ InvokeBody
    \/ BodyReturns(<<>>)
    \/ StoreOutputs
    \/ ResetTaskState
    \/ GetObjectRetrieve
    \/ GetObjectLoop
    \/ \E id \in ExternalIDs, v \in ExternalValues : ObjectArrives(id, v)
    \/ \E value \in PutValues : Put(value)
    \/ \E object_ids \in GetInputs : Get(object_ids)
    \/ GetReturns

SpecStore == Init /\ [][NextStore]_vars

\* a driver program calling put, get and wait, while no object of another
\* process arrives
NextDriver ==
    \/ \E m \in {SCRIPT_MODE, LOCAL_MODE} : Connect(m)
    \/ GetObjectRetrieve
    \/ GetObjectLoop
    \/ \E value \in PutValues : Put(value)
    \/ \E object_ids \in GetInputs : Get(object_ids)
    \/ GetReturns
    \/ \E object_ids \in WaitInputs,
          num_returns \in -1..(MaxLen + 1), P \in SUBSET (1..MaxLen) :
            Wait(object_ids, num_returns, P)

SpecDriver == Init /\ [][NextDriver]_vars

\* a program that only calls wait
NextWait ==
    \/ \E m \in {SCRIPT_MODE, WORKER_MODE, LOCAL_MODE} : Connect(m)
    \/ \E t \in ApiTasks(ntasks + 1, actor_id) : GetTask(t)
    \/ ProcessTask(FALSE)
    \/ NextArgument
    \/ InvokeBody
    \/ BodyReturns(<<>>)
    \/ StoreOutputs
    \/ ResetTaskState
    \/ \E object_ids \in WaitInputs,
          num_returns \in -1..(MaxLen + 1), P \in SUBSET (1..MaxLen) :
            Wait(object_ids, num_returns, P)

SpecWait == Init /\ [][NextWait]_vars

\* A driver whose threads call put.
NextThreads ==
    \/ Connect(SCRIPT_MODE)
    \/ \E t \in 1..NumThreads, value \in ThreadValues : PutComputeId(t, value)
    \/ \E t \in 1..NumThreads : PutStoreObject(t)
    \/ \E t \in 1..NumThreads : PutReadIndex(t)
    \/ \E t \in 1..NumThreads : PutWriteIndex(t)
SpecThreads == Init /\ [][NextThreads]_vars

\* A driver that submits tasks, before and after connecting.
NextSubmit ==
    \/ Connect(SCRIPT_MODE)
    \/ \E args \in SubmitArgs, resources \in ResourceMaps :
          SubmitTask(args, resources)
SpecSubmit == Init /\ [][NextSubmit]_vars

\* A worker that runs plain tasks, some of a function with max_calls.
NextCalls ==
    \/ Connect(WORKER_MODE)
    \/ \E t \in CountedTasks(ntasks + 1) : GetCountedTask(t)
    \/ ProcessTask(FALSE)
    \/ NextArgument
    \/ ArgumentFetched
    \/ InvokeBody
    \/ BodyRaises
    \/ \E out \in PossibleOutputs(task.num_returns) : BodyReturns(out)
    \/ StoreOutputs
    \/ ResetTaskState
    \/ GetObjectRetrieve
    \/ GetObjectLoop
    \/ \E v \in ExternalValues : ObjectArrives(ExternalID(1), v)
SpecCalls == Init /\ [][NextCalls]_vars

\* A driver that calls init and shutdown, asks for functions to be run on
\* all workers, and puts objects.
NextSession ==
    \/ \E ignore_reinit_error \in BOOLEAN, use_raylet \in UseRaylet,
          m \in {SCRIPT_MODE, LOCAL_MODE} :
          RayInit(ignore_reinit_error, use_raylet, m)
    \/ Shutdown
    \/ \E function \in UserFunctions : RunFunctionOnAllWorkers(function)
    \/ \E value \in {Value("val", 1)} : Put(value)
SpecSession == Init /\ [][NextSession]_vars

\* A driver whose connect may meet a cluster of another version; it
\* handles the exception and calls init and shutdown again.
NextReinit ==
    \/ \E ignore_reinit_error \in BOOLEAN, use_raylet \in UseRaylet,
          m \in {SCRIPT_MODE, LOCAL_MODE} :
          RayInit(ignore_reinit_error, use_raylet, m)
    \/ Shutdown
    \/ \E function \in UserFunctions : RunFunctionOnAllWorkers(function)
    \/ lastSession.n < MaxSessionCalls /\ ConnectVersionMismatch(SCRIPT_MODE)
    \/ ExceptionHandled
SpecReinit == Init /\ [][NextReinit]_vars

\* Drivers of one cluster exporting functions.
NextExport ==
    \/ \E d \in 1..NumDrivers, function \in UserFunctions :
          ExportRunLocally(d, function)
    \/ \E d \in 1..NumDrivers : ExportSetnx(d)
    \/ \E d \in 1..NumDrivers : ExportHmset(d)
    \/ \E d \in 1..NumDrivers : ExportRpush(d)
SpecExport == Init /\ [][NextExport]_vars

\* A connected driver calling Worker.put_object.
NextPutObject ==
    \/ Connect(SCRIPT_MODE)
    \/ \E object_id \in PutObjectIDs, value \in PutValues :
          PutObject(object_id, value)
SpecPutObject == Init /\ [][NextPutObject]_vars

\* A driver calling get on objects of other processes, which arrive while
\* it waits.
NextGet ==
    \/ Connect(SCRIPT_MODE)
    \/ \E object_ids \in GetInputs : Get(object_ids)
    \/ GetObjectRetrieve
    \/ GetObjectLoop
    \/ GetReturns
    \/ \E id \in ExternalIDs, v \in ExternalValues : ObjectArrives(id, v)
SpecGet == Init /\ [][NextGet]_vars

\* A driver or a worker connecting to a cluster of the same or of another
\* version, the worker then running tasks whose bodies call put.
NextVersion ==
    \/ \E m \in {SCRIPT_MODE, WORKER_MODE} : Connect(m)
    \/ \E m \in {SCRIPT_MODE, WORKER_MODE} : ConnectVersionMismatch(m)
    \/ \E t \in ApiTasks(ntasks + 1, actor_id) : GetTask(t)
    \/ ProcessTask(FALSE)
    \/ NextArgument
    \/ InvokeBody
    \/ BodyReturns(<<>>)
    \/ StoreOutputs
    \/ ResetTaskState
    \/ \E value \in PutValues : Put(value)
SpecVersion == Init /\ [][NextVersion]_vars

\* A driver program run several times in one process, with a seed for its
\* ids or without, against the cluster of the run before or a new one; each
\* run connects, calls put and submit_task and shuts down.
SeedPutValues == {Value("val", 1), Value("typeerr", 1)}
SeedSubmitArgs == {<<>>, <<ArgValue(Value("val", 2))>>}
CanLog ==
    /\ connected
    /\ Len(sessions[Len(sessions)].calls) < MaxLogged
NextSeed ==
    \/ \E object_id_seed \in Seeds \cup {NoSeed} : ConnectSeeded(object_id_seed)
    \/ \E value \in SeedPutValues : CanLog /\ Put(value)
    \/ \E args \in SeedSubmitArgs :
          CanLog /\ SubmitTask(args, Resources(<<>>))
    \/ Shutdown
    \/ NewCluster
SpecSeed == Init /\ [][NextSeed]_vars

\* A worker whose task bodies call submit_task and leave threads behind
\* that call submit_task too, while the main loop goes on.
NextRace ==
    \/ Connect(WORKER_MODE)
    \/ \E t \in ApiTasks(ntasks + 1, actor_id) : GetTask(t)
    \/ ProcessTask(FALSE)
    \/ NextArgument
    \/ InvokeBody
    \/ BodyReturns(<<>>)
    \/ StoreOutputs
    \/ ResetTaskState
    \/ pc = "body" /\ SubmitTask(<<>>, Resources(<<>>))
    \/ \E t \in 1..NumThreads : SubmitCapture(t)
    \/ \E t \in 1..NumThreads : SubmitBuildTask(t)
SpecRace == Init /\ [][NextRace]_vars

\* A worker whose first task body leaves two threads behind, one that calls
\* submit_task and one that calls put, while the main loop goes on.
NextStart ==
    \/ Connect(WORKER_MODE)
    \/ \E t \in ApiTasks(ntasks + 1, actor_id) : GetTask(t)
    \/ ProcessTask(FALSE)
    \/ NextArgument
    \/ InvokeBody
    \/ BodyReturns(<<>>)
    \/ BodyRaises
    \/ StoreOutputs
    \/ ResetTaskState
    \/ SubmitCapture(1)
    \/ SubmitBuildTask(1)
    \/ PutComputeId(NumThreads, Value("val", 1))
    \/ PutStoreObject(NumThreads)
    \/ PutReadIndex(NumThreads)
    \/ PutWriteIndex(NumThreads)
SpecStart == Init /\ [][NextStart]_vars

\* A driver whose threads call get_object on objects of other processes,
\* which arrive while they wait.
ThreadGetInputs == SeqsUpTo(ExternalIDs, MaxLen)
NextGetThreads ==
    \/ Connect(SCRIPT_MODE)
    \/ \E t \in 1..NumThreads, object_ids \in ThreadGetInputs :
          ThreadGet(t, object_ids)
    \/ \E t \in 1..NumThreads : ThreadGetRetrieve(t)
    \/ \E t \in 1..NumThreads : ThreadGetLock(t)
    \/ \E t \in 1..NumThreads : ThreadGetLoop(t)
    \/ \E t \in 1..NumThreads : ThreadGetNotify(t)
    \/ \E t \in 1..NumThreads : ThreadGetReturns(t)
    \/ \E id \in ExternalIDs : ObjectArrives(id, Value("val", 1))
SpecGetThreads == Init /\ [][NextGetThreads]_vars

\* the same, each thread inside get_object being scheduled and every
\* object that was asked for arriving
SpecGetThreadsLive ==
    /\ SpecGetThreads
    /\ \A t \in 1..NumThreads :
          WF_vars(\/ ThreadGetRetrieve(t) \/ ThreadGetLock(t)
                  \/ ThreadGetLoop(t) \/ ThreadGetNotify(t))
    /\ WF_vars(\E id \in ExternalIDs : ObjectArrives(id, Value("val", 1)))

\* A driver, or a worker that runs tasks: the main thread calls get_object
\* and wait in the driver program or in a task body, and so does a thread
\* that the first task body has left behind, while the awaited objects
\* arrive.
BlockedInputs == {<<id>> : id \in ExternalIDs}
MainCanCall == pc \in {"driver", "body"}
CanBlock(t) == IF is_main_thread(t) THEN MainCanCall ELSE ThreadCanCall
NextBlocked ==
    \/ \E m \in {SCRIPT_MODE, WORKER_MODE} : Connect(m)
    \/ \E t \in ApiTasks(ntasks + 1, actor_id) : GetTask(t)
    \/ ProcessTask(FALSE)
    \/ NextArgument
    \/ InvokeBody
    \/ gets[1].pc = "out" /\ BodyReturns(<<>>)
    \/ StoreOutputs
    \/ ResetTaskState
    \/ \E t \in 1..NumThreads, object_ids \in BlockedInputs :
          CanBlock(t) /\ ThreadGet(t, object_ids)
    \/ \E t \in 1..NumThreads, object_ids \in BlockedInputs :
          CanBlock(t) /\ ThreadWait(t, object_ids)
    \/ \E t \in 1..NumThreads : ThreadGetRetrieve(t)
    \/ \E t \in 1..NumThreads : ThreadGetLock(t)
    \/ \E t \in 1..NumThreads : ThreadGetLoop(t)
    \/ \E t \in 1..NumThreads : ThreadGetNotify(t)
    \/ \E t \in 1..NumThreads : ThreadGetReturns(t)
    \/ \E id \in ExternalIDs : ObjectArrives(id, Value("val", 1))
SpecBlocked == Init /\ [][NextBlocked]_vars

\* A driver of which one thread calls get_object and another submit_task.
\* The first external object is the output of a task of another process
\* and arrives on its own; the second is made only once a task that this
\* process submits has run, so it arrives only after a submission.
NextSubmitGet ==
    \/ Connect(SCRIPT_MODE)
    \/ \E t \in 1..NumThreads, object_ids \in BlockedInputs :
          subs[t].pc = "out" /\ ThreadGet(t, object_ids)
    \/ \E t \in 1..NumThreads : ThreadGetRetrieve(t)
    \/ \E t \in 1..NumThreads : ThreadGetLock(t)
    \/ \E t \in 1..NumThreads : ThreadGetLoop(t)
    \/ \E t \in 1..NumThreads : ThreadGetNotify(t)
    \/ \E t \in 1..NumThreads : ThreadGetReturns(t)
    \/ \E t \in 1..NumThreads : gets[t].pc = "out" /\ SubmitCall(t)
    \/ \E t \in 1..NumThreads : subs[t].pc = "lock" /\ SubmitCapture(t)
    \/ \E t \in 1..NumThreads : SubmitBuildTask(t)
    \/ ObjectArrives(ExternalID(1), Value("val", 1))
    \/ Len(submitted) > 0 /\ ObjectArrives(ExternalID(2), Value("val", 1))
SpecSubmitGet == Init /\ [][NextSubmitGet]_vars

\* the same, each thread inside get_object or submit_task being scheduled
\* and every object that can arrive arriving
SpecSubmitGetLive ==
    /\ SpecSubmitGet
    /\ \A t \in 1..NumThreads :
          /\ WF_vars(\/ ThreadGetRetrieve(t) \/ ThreadGetLock(t)
                     \/ ThreadGetLoop(t) \/ ThreadGetNotify(t))
          /\ WF_vars(\/ subs[t].pc = "lock" /\ SubmitCapture(t)
                     \/ SubmitBuildTask(t))
    /\ WF_vars(ObjectArrives(ExternalID(1), Value("val", 1)))
    /\ WF_vars(Len(submitted) > 0 /\ ObjectArrives(ExternalID(2), Value("val", 1)))

\* A worker that runs tasks while its import thread imports a class; the
\* main thread and a thread left behind by the first task body call get on
\* objects of that class.
NextLock ==
    \/ Connect(WORKER_MODE)
    \/ \E t \in ApiTasks(ntasks + 1, actor_id) : GetTask(t)
    \/ ProcessTask(FALSE)
    \/ NextArgument
    \/ InvokeBody
    \/ BodyReturns(<<>>)
    \/ StoreOutputs
    \/ ResetTaskState
    \/ MainBackoffRelease
    \/ MainBackoffAcquire
    \/ ThreadBackoffRelease
    \/ ThreadBackoffAcquire
    \/ ImportAcquire
    \/ ImportRelease
SpecLock == Init /\ [][NextLock]_vars

\* A driver, or a worker that runs tasks while its import thread imports a
\* class: the main thread and a thread left behind by the first task body
\* call retrieve_and_deserialize on objects of that class.
NextRetry ==
    \/ \E m \in {SCRIPT_MODE, WORKER_MODE} : Connect(m)
    \/ \E t \in ApiTasks(ntasks + 1, actor_id) : GetTask(t)
    \/ ProcessTask(FALSE)
    \/ NextArgument
    \/ InvokeBody
    \/ backoff.caller # "main" /\ BodyReturns(<<>>)
    \/ StoreOutputs
    \/ ResetTaskState
    \/ ImportAcquire
    \/ ImportRelease
    \/ \E caller \in {"main", "thread"}, error_timeout \in ErrorTimeouts :
          RetrieveCall(caller, error_timeout)
    \/ RetrieveTry
    \/ \E slept \in {0, 1} : RetrieveSleep(slept)
SpecRetry == Init /\ [][NextRetry]_vars

\* A driver that calls Worker.store_and_register, once, on a value of
\* classes that have no serializer yet, the store being empty or holding
\* one object.
NextRegister ==
    \/ Connect(SCRIPT_MODE)
    \/ \E object_id \in PutObjectIDs :
          lastPutObject.n = 0 /\ PutObject(object_id, Value("val", 1))
    \/ \E object_id \in PutObjectIDs, classes \in ClassLists,
          depth \in 1..MaxDepth :
          /\ lastPutObject.depth = 0
          /\ StoreAndRegisterCall(object_id, classes, depth)
    \/ StoreAndRegisterPut
    \/ StoreAndRegisterRegister
SpecRegister == Init /\ [][NextRegister]_vars

\* the same, the thread that runs store_and_register being scheduled
SpecRegisterLive ==
    SpecRegister /\ WF_vars(StoreAndRegisterPut \/ StoreAndRegisterRegister)

\* A driver that connects, disconnects and connects again, and whose
\* threads call get_serialization_context; it calls shutdown while no
\* thread is inside the method.
NoContextCalls == \A t \in 1..NumThreads : contexts.calls[t].pc = "out"
NextContexts ==
    \/ \E ignore_reinit_error \in BOOLEAN :
          RayInit(ignore_reinit_error, "None", SCRIPT_MODE)
    \/ NoContextCalls /\ Shutdown
    \/ \E t \in 1..NumThreads, driver_id \in Drivers :
          GetContextTest(t, driver_id)
    \/ \E t \in 1..NumThreads : GetContextInitialize(t)
    \/ \E t \in 1..NumThreads : GetContextReturn(t)
SpecContexts == Init /\ [][NextContexts]_vars

\* A program calling put and Worker.put_object in any mode: a driver, or
\* the body of a task.
NextPut ==
    \/ \E m \in {SCRIPT_MODE, WORKER_MODE, LOCAL_MODE} : Connect(m)
    \/ \E t \in ApiTasks(ntasks + 1, actor_id) : GetTask(t)
    \/ ProcessTask(FALSE)
    \/ NextArgument
    \/ InvokeBody
    \/ BodyReturns(<<>>)
    \/ StoreOutputs
    \/ ResetTaskState
    \/ \E value \in PutValues : Put(value)
    \/ \E object_id \in PutObjectIDs, value \in PutValues :
          PutObject(object_id, value)
SpecPut == Init /\ [][NextPut]_vars

\* A driver's listener thread and the errors published for this driver and
\* for others.
NextListener ==
    \/ Connect(SCRIPT_MODE)
    \/ Tick
    \/ \E job_id \in JobIDs, type \in ErrorTypes : Publish(job_id, type)
    \/ ListenerSubscribes
    \/ ListenerPrintsTable
    \/ Listen
    \/ PrinterGets
    \/ PrinterExamines
SpecListener == Init /\ [][NextListener]_vars

\* A driver, the task errors published for it, its printer thread and its
\* gets of an object that holds a task failure.
NextErrors ==
    \/ Connect(SCRIPT_MODE)
    \/ Tick
    \/ Publish(DriverID(1), TASK_PUSH_ERROR)
    \/ ListenerSubscribes
    \/ ListenerPrintsTable
    \/ Listen
    \/ PrinterGets
    \/ PrinterExamines
    \/ RaisingGet
    \/ GetObjectRetrieve
    \/ GetObjectLoop
    \/ GetReturns
    \/ ObjectArrives(ExternalID(1), UpstreamFailure)
SpecErrors == Init /\ [][NextErrors]_vars

\* The same with the threads scheduled and the clock running.
SpecErrorsLive ==
    /\ SpecErrors
    /\ WF_vars(Tick)
    /\ WF_vars(PrinterGets)
    /\ WF_vars(PrinterExamines)

(***************************************************************************)
(* Properties.                                                             *)
(***************************************************************************)
Distinct(s) == \A i, j \in DOMAIN s : s[i] = s[j] => i = j

\* a and b are what is left of s at some positions and at the others
OrderedSplit(s, a, b) ==
    \E P \in SUBSET DOMAIN s : a = Pick(s, P) /\ b = Pick(s, DOMAIN s \ P)

\* a call of op has finished in one of the modes that use the object store
Finished(op) == last.op = op /\ last.mode \in {SCRIPT_MODE, WORKER_MODE}

\* the failure object the handler builds for the task in hand
TaskFailure == RayTaskError(task.function_name, tlog.failure.site)

Holds(id, v) == id \in DOMAIN store /\ store[id] = v

\* C1: in SCRIPT_MODE and WORKER_MODE every object id that put has returned
\* for a value v holds v in the store, a get of that id alone returns v
\* without raising, and a get of a list returns v at each position of that
\* id whenever it returns.
C1_PutGetRoundTrip ==
    /\ \A p \in puts : Holds(p[1], p[2])
    /\ Finished("get") =>
          \A i \in DOMAIN last.ids : \A p \in puts :
              last.ids[i] = p[1] =>
                  /\ Len(last.ids) = 1 => last.exc = "none"
                  /\ last.exc = "none" => last.res[i] = p[2]

\* a second put of the same task has returned, and a get of its id gave the
\* value of that put
C1_Witness ==
    /\ Finished("get")
    /\ last.mode = WORKER_MODE
    /\ \E p \in puts : /\ p[1][3] = 2
                       /\ last.ids = <<p[1]>>
                       /\ last.res = <<p[2]>>
                       /\ \E q \in puts : q[1] # p[1] /\ q[2] # p[2]

\* C2: once _process_task has returned for a task that failed, every
\* non-dummy return id of the task holds the TaskFailure built from the
\* task's function name and the traceback of the failure.
C2_AllReturnIdsHoldFailure ==
    (pc = "returned" /\ tlog.failure # none_error) =>
        \A id \in Range(return_object_ids(task)) : Holds(id, TaskFailure)

\* C3: when _process_task returns, every non-dummy return id of the task is
\* in the store, and no step changes or removes the value stored under a
\* return id.
C3_ReturnIdsWrittenOnce ==
    [][ /\ pc' = "returned" =>
              \A id \in Range(return_object_ids(task')) : id \in DOMAIN store'
        /\ \A id \in DOMAIN store :
              id[1] = "return" => id \in DOMAIN store' /\ store'[id] = store[id]
      ]_vars

\* storing the outputs failed after the first of two was written: both ids
\* are present, the first with the value written before the failure
C3_Witness ==
    /\ pc = "returned"
    /\ task.num_returns = 2
    /\ tlog.failure.site = "store_outputs"
    /\ store[ReturnID(task.task_id, 1)].k = "val"
    /\ ReturnID(task.task_id, 2) \in DOMAIN store

\* C4: when get_object is done, the result is as long as the list of ids,
\* no position holds ObjectNotAvailable, and position i holds the value
\* stored under ids[i] (results that retrieve_and_deserialize replaced on
\* invalid bytes set aside).
C4_GetObjectParallel ==
    go.pc = "done" =>
        /\ Len(go.final) = Len(go.ids)
        /\ \A i \in DOMAIN go.ids :
              /\ go.final[i] # ObjectNotAvailable
              /\ invalid_error \notin Range(go.final) =>
                    Holds(go.ids[i], go.final[i])

\* an argument passed by id holds a TaskFailure, or bytes that
\* retrieve_and_deserialize turns into one
ArgumentFailed ==
    \E i \in DOMAIN task.arguments :
        /\ task.arguments[i].ref
        /\ task.arguments[i].id \in DOMAIN store
        /\ store[task.arguments[i].id].k \in {"err", "bad"}

\* the handler pushed a task error event to the driver of the task
PushedToTaskDriver ==
    \E i \in DOMAIN tlog.pushed :
        /\ tlog.pushed[i].driver_id = task.driver_id
        /\ tlog.pushed[i].type = "task"
        /\ tlog.pushed[i].function_name = task.function_name

\* C5 as amended: when _process_task has returned for a task one of whose
\* ObjectID arguments holds a TaskFailure, the body was not invoked, every
\* non-dummy return id holds a TaskFailure of the task's function, and an
\* error event went to the task's driver.
C5_FailedArgument ==
    (pc = "returned" /\ ArgumentFailed) =>
        /\ ~tlog.invoked
        /\ tlog.failure # none_error
        /\ \A id \in Range(return_object_ids(task)) : Holds(id, TaskFailure)
        /\ PushedToTaskDriver

\* C5 as stated: the same with every id of task.returns(), the dummy object
\* of an actor task included.
C5_FailedArgumentEveryReturnId ==
    (pc = "returned" /\ ArgumentFailed) =>
        /\ ~tlog.invoked
        /\ \A id \in Range(TaskReturns(task)) :
              id \in DOMAIN store /\ IsRayTaskError(store[id])
        /\ PushedToTaskDriver

\* a task of the second driver with two return values failed on its second
\* argument, an upstream TaskFailure
C5_Witness ==
    /\ pc = "returned"
    /\ task.driver_id = DriverID(2)
    /\ task.num_returns = 2
    /\ Len(task.arguments) = 2
    /\ Len(arguments) = 1
    /\ Holds(task.arguments[2].id, UpstreamFailure)
    /\ tlog.failure.site = "argument"

\* the creation task of the actor has failed: a return id holds a
\* TaskFailure of __init__
InitFailed ==
    \E id \in DOMAIN store :
        id[1] = "return" /\ store[id].k = "err" /\ store[id].fn = "__init__"

MethodReturned ==
    pc = "returned" /\ task.actor_id # NIL_ACTOR_ID

\* C6 as amended: a failed creation task leaves its error in
\* actor_init_error, and once it has failed every method task other than
\* __ray_terminate__ returns having failed with that error, with no
\* argument fetched and the body not invoked, every non-dummy return id
\* holding a TaskFailure.
C6_InitErrorFailsMethods ==
    /\ (pc = "returned" /\ task.actor_creation_id # NIL_ACTOR_ID
            /\ tlog.failure # none_error) =>
          actor_init_error = tlog.failure
    /\ (MethodReturned /\ InitFailed
            /\ task.function_name # "__ray_terminate__") =>
          /\ actor_init_error # none_error
          /\ actor_init_error.task # task.task_id
          /\ tlog.failure = actor_init_error
          /\ ~tlog.fetched
          /\ ~tlog.invoked
          /\ \A id \in Range(return_object_ids(task)) : Holds(id, TaskFailure)

\* C6 as stated: the same with every id of task.returns(), the dummy object
\* included.
C6_InitErrorEveryReturnId ==
    (MethodReturned /\ InitFailed /\ task.function_name # "__ray_terminate__") =>
        /\ tlog.failure = actor_init_error
        /\ ~tlog.fetched
        /\ ~tlog.invoked
        /\ \A id \in Range(TaskReturns(task)) :
              id \in DOMAIN store /\ IsRayTaskError(store[id])

\* the third task of an actor whose creation failed is a method with an
\* argument, and it has returned
C6_Witness ==
    /\ MethodReturned
    /\ InitFailed
    /\ ntasks = 3
    /\ task.function_name = "method"
    /\ task.arguments # <<>>
    /\ Holds(ReturnID(task.task_id, 1), TaskFailure)

\* C7: while the creation task has not failed, no failure of a method sets
\* actor_init_error, and every method task that returns either had its
\* body invoked or failed on its own before the body (an argument, the
\* memory monitor); each non-dummy return id holds a value or the
\* TaskFailure of this very task.
C7_MethodFailureNotSticky ==
    (MethodReturned /\ ~InitFailed) =>
        /\ actor_init_error = none_error
        /\ tlog.failure.task \in {NIL_ID, task.task_id}
        /\ \/ tlog.invoked
           \/ tlog.failure.site \in {"argument", "raise_if_low_memory"}
        /\ \A id \in Range(return_object_ids(task)) :
              \/ id \in DOMAIN store /\ store[id].k = "val"
              \/ tlog.failure # none_error /\ Holds(id, TaskFailure)

\* the creation task succeeded, the method after it failed in its body, and
\* the method after that was invoked and stored its value
C7_Witness ==
    /\ MethodReturned
    /\ ~InitFailed
    /\ ntasks = 3
    /\ tlog.invoked
    /\ store[ReturnID(TaskID(2), 1)].k = "err"
    /\ store[ReturnID(TaskID(2), 1)].tb = "task_body"
    /\ store[ReturnID(TaskID(3), 1)].k = "val"

WaitReturned == last.op = "wait" /\ last.exc = "none" /\ last.mode # None

\* C8 as amended: the two lists wait returns are the input at some
\* positions and at the others, each in the order of the input; they share
\* no element when the inputs are pairwise distinct; in LOCAL_MODE ready
\* followed by remaining is the input, and ready is its first num_returns
\* elements when num_returns is not negative.
C8_WaitSplit ==
    WaitReturned =>
        /\ OrderedSplit(last.ids, last.res, last.rest)
        /\ Distinct(last.ids) => Range(last.res) \cap Range(last.rest) = {}
        /\ last.mode = LOCAL_MODE =>
              /\ last.res \o last.rest = last.ids
              /\ last.num >= 0 =>
                    last.res = SubSeq(last.ids, 1, Min(last.num, Len(last.ids)))

\* C8 as stated: the two lists are disjoint for every call that returns,
\* and in LOCAL_MODE ready is the first num_returns inputs.
C8_WaitPartition ==
    WaitReturned =>
        /\ OrderedSplit(last.ids, last.res, last.rest)
        /\ Range(last.res) \cap Range(last.rest) = {}
        /\ last.mode = LOCAL_MODE =>
              /\ last.res \o last.rest = last.ids
              /\ Len(last.res) = Min(Max(last.num, 0), Len(last.ids))

\* a LOCAL_MODE wait for one of two different values
C8_Witness ==
    /\ WaitReturned
    /\ last.mode = LOCAL_MODE
    /\ last.num = 1
    /\ Len(last.res) = 1
    /\ Len(last.rest) = 1
    /\ last.res # last.rest

\* C9: in SCRIPT_MODE and WORKER_MODE a wait on a non-empty list raises
\* without a call of the raylet's wait when the ids are not pairwise
\* distinct, when num_returns <= 0 or when num_returns > len(ids); on every
\* other input it calls the raylet's wait exactly once.
C9_WaitValidation ==
    (Finished("wait") /\ last.ids # <<>>) =>
        IF \/ ~Distinct(last.ids)
           \/ last.num <= 0
           \/ last.num > Len(last.ids)
        THEN last.exc = "Exception" /\ last.waits = 0 /\ last.clients = {}
        ELSE last.exc = "none" /\ last.waits = 1

\* a wait in a task body for more objects than it was given ids
C9_Witness ==
    /\ Finished("wait")
    /\ last.mode = WORKER_MODE
    /\ Distinct(last.ids)
    /\ Len(last.ids) = 2
    /\ last.num = 3
    /\ last.exc = "Exception"

\* C10: in LOCAL_MODE put returns its argument, get returns its argument
\* and wait returns two lists that make up its argument; none of them
\* contacts the object store, the raylet or the control plane, and
\* put_index and task_index are what they were before the call.
C10_LocalModeIdentity ==
    (last.mode = LOCAL_MODE /\ last.op \in {"put", "get", "wait"}) =>
        /\ last.exc = "none"
        /\ last.op \in {"put", "get"} => last.res = last.ids
        /\ last.op = "wait" => last.res \o last.rest = last.ids
        /\ last.clients = {}
        /\ last.waits = 0
        /\ store = <<>>
        /\ serialization_context_map = <<>>
        /\ requested = {}
        /\ blocked = {}
        /\ put_index = last.put_index
        /\ task_index = last.task_index

\* a LOCAL_MODE put
C10_Witness ==
    /\ last.mode = LOCAL_MODE
    /\ last.op = "put"
    /\ last.res = <<Value("val", 2)>>

\* the put calls that returned an object id
ReturnedPuts == {i \in DOMAIN tputs : tputs[i].exc = "none"}

\* C11: within one driver session no two put calls return the same ObjectID,
\* and once every put has returned, the ids handed out are those of put
\* indices 1..n for the n calls that returned an id, whatever the
\* interleaving of the calling threads.
C11_PutIdsUnique ==
    /\ \A i, j \in ReturnedPuts :
          i # j => tputs[i].object_id # tputs[j].object_id
    /\ (\A t \in DOMAIN threads : threads[t].pc = "out") =>
          {tputs[i].object_id : i \in ReturnedPuts} =
              {compute_put_id(current_task_id, k) :
                  k \in 1..Cardinality(ReturnedPuts)}

\* the resources of a call as the claim describes the rejected ones:
\* missing, or with a negative value, or with a value of 1 or more that is
\* not whole
Rejected(resources) ==
    \/ ~resources.given
    \/ \E i \in DOMAIN resources.values :
          LET value == resources.values[i]
          IN  \/ value.twice < 0
              \/ value.twice >= 2 /\ value.twice % 2 = 1

\* C12: a submit_task call whose resources map is missing, or holds a
\* negative value, or holds a non-integer value >= 1, raises, hands no task
\* to raylet_client.submit_task and leaves task_index as it was.
C12_SubmitValidation ==
    [][(lastSubmit'.seq # lastSubmit.seq /\ Rejected(lastSubmit'.resources))
         => /\ lastSubmit'.exc # "none"
            /\ submitted' = submitted
            /\ task_index' = task_index]_vars

\* a rejected call made after one that went through
C12_Witness ==
    /\ connected
    /\ task_index = 1
    /\ Len(submitted) = 1
    /\ Rejected(lastSubmit.resources)
    /\ lastSubmit.resources.given
    /\ lastSubmit.exc = "ValueError"
    /\ lastSubmit.seq = 2

\* the step that ends a task of a function with max_calls >= 1 and brings
\* the execution count of its (driver, function) to max_calls
ReachesMaxCalls ==
    /\ pc = "returned" /\ pc' # "returned"
    /\ FunctionMaxCalls(task.function_name) >= 1
    /\ get_task_counter(task_counter', task.driver_id, task.function_name)
          = FunctionMaxCalls(task.function_name)

\* C13: the worker calls raylet_client.disconnect and exits in the step that
\* finishes the task (successful or failed) bringing the execution count of
\* its (driver, function) to max_calls, and in no other step; a task of a
\* function with max_calls >= 1 is taken only while the count is below
\* max_calls, and after the exit no task is fetched.
C13_ExitAtMaxCalls ==
    [][/\ (raylet_client' = "disconnected" /\ raylet_client # "disconnected")
           <=> ReachesMaxCalls
       /\ (pc' = "exited" /\ pc # "exited") <=> ReachesMaxCalls
       /\ (ntasks' # ntasks /\ FunctionMaxCalls(task'.function_name) >= 1)
           => get_task_counter(task_counter, task'.driver_id,
                               task'.function_name)
                 < FunctionMaxCalls(task'.function_name)
       /\ pc = "exited" => (ntasks' = ntasks /\ pc' = "exited")]_vars

\* the worker has left after its third task: two executions of the limited
\* function for one driver, one of them failed, and one for the other driver
C13_Witness ==
    /\ pc = "exited"
    /\ raylet_client = "disconnected"
    /\ ntasks = 3
    /\ get_task_counter(task_counter, DriverID(1), "limited") = MaxCalls
    /\ get_task_counter(task_counter, DriverID(2), "limited") = 1
    /\ \E n \in 1..3 :
          /\ ReturnID(TaskID(n), 1) \in DOMAIN store
          /\ IsRayTaskError(store[ReturnID(TaskID(n), 1)])
          /\ store[ReturnID(TaskID(n), 1)].fn = "limited"

\* a shutdown that follows a shutdown, no other session call in between
SecondShutdown ==
    /\ lastSession.op = "shutdown"
    /\ lastSession'.op = "shutdown"
    /\ lastSession'.n = lastSession.n + 1

\* C14: shutdown is idempotent: a shutdown that directly follows a shutdown
\* raises nothing, finds and leaves the worker disconnected, without mode,
\* with an empty function buffer and no serialization contexts, and changes
\* neither the worker's state nor the store and raylet clients (no further
\* call reaches them).
C14_ShutdownIdempotent ==
    [][SecondShutdown =>
         /\ lastSession'.exc = "none"
         /\ ~connected' /\ mode' = None
         /\ cached_functions_to_run' = Cached(<<>>)
         /\ serialization_context_map' = <<>>
         /\ UNCHANGED <<workerVars, objectVars, cached_functions_to_run,
                        clientVars, plasma_disconnects>>]_vars

\* a call of init made while the worker is connected
InitWhileConnected ==
    /\ lastSession'.n # lastSession.n
    /\ lastSession'.op = "init"
    /\ connected

\* what no init made while connected changes: the worker (mode, ids,
\* counters), its clients, its function buffer and the control plane
InitLeavesAlone ==
    /\ UNCHANGED <<workerVars, objectVars, clientVars, sessionVars>>
    /\ connections' = connections

\* C15 as stated: init while connected raises when ignore_reinit_error is
\* false and returns when it is true, in both cases without changing any
\* worker state and without a second connection.
C15_ReinitRaisesOrReturns ==
    [][InitWhileConnected =>
         /\ InitLeavesAlone
         /\ (lastSession'.exc # "none") <=> ~lastSession'.ignore_reinit_error
      ]_vars

\* C15, amended: init while connected changes no worker state and makes no
\* second connection; it raises when ignore_reinit_error is false or when
\* the deprecated use_raylet argument is False, and returns otherwise.
C15_ReinitLeavesWorkerAlone ==
    [][InitWhileConnected =>
         /\ InitLeavesAlone
         /\ (lastSession'.exc # "none") <=>
               (~lastSession'.ignore_reinit_error
                  \/ lastSession'.use_raylet = "False")]_vars

\* init(ignore_reinit_error=True) has returned to a driver that was
\* connected, with an object put and one connection made
C15_Witness ==
    /\ lastSession.op = "init"
    /\ lastSession.connected
    /\ lastSession.ignore_reinit_error
    /\ lastSession.exc = "none"
    /\ connected /\ mode = SCRIPT_MODE
    /\ connections = 1
    /\ put_index = 2

\* how often a function's key occurs in Exports
TimesExported(r, function) ==
    Cardinality({i \in DOMAIN r.exports : r.exports[i] = FunctionKey(function)})

\* the keys of a list of functions, in order, each once, without those
\* already exported
RECURSIVE KeysToExport(_, _)
KeysToExport(functions, exported) ==
    IF functions = <<>> THEN <<>>
    ELSE IF FunctionKey(Head(functions)) \in exported
    THEN KeysToExport(Tail(functions), exported)
    ELSE <<FunctionKey(Head(functions))>> \o
         KeysToExport(Tail(functions),
                      exported \cup {FunctionKey(Head(functions))})

\* a call of run_function_on_all_workers by a worker without mode
BuffersFunction ==
    /\ lastSession'.n # lastSession.n
    /\ lastSession'.op = "run_function_on_all_workers"
    /\ mode = None

\* a connect in SCRIPT_MODE
ConnectsAsScript == ~connected /\ connected' /\ mode' = SCRIPT_MODE

\* C19: run_function_on_all_workers called by a worker without mode runs
\* nothing, exports nothing and appends the function to the buffer; a
\* SCRIPT_MODE connect runs the buffered functions once each in buffer
\* order, leaves the key of each in Exports exactly once, the keys it
\* appended being in buffer order, and leaves no buffer behind; no key is
\* ever exported twice.
C19_BufferedFunctions ==
    [][/\ BuffersFunction =>
            /\ ran' = ran /\ redis' = redis
            /\ cached_functions_to_run' =
                  Cached(Append(cached_functions_to_run.list,
                                lastSession'.function))
            /\ lastSession'.exc = "none"
       /\ ConnectsAsScript =>
            /\ ran' = ran \o PathFunctions \o cached_functions_to_run.list
            /\ \A j \in DOMAIN cached_functions_to_run.list :
                  TimesExported(redis', cached_functions_to_run.list[j]) = 1
            /\ redis'.exports = redis.exports \o
                  KeysToExport(PathFunctions \o cached_functions_to_run.list,
                               Range(redis.exports))
            /\ cached_functions_to_run' = CachedNone
       /\ \A f \in UserFunctions : TimesExported(redis', f) <= 1]_vars

\* two functions were buffered by a worker without mode and the connect that
\* followed has run and exported them in buffer order
C19_Witness ==
    /\ lastSession.op = "init" /\ lastSession.n = 4
    /\ connected /\ mode = SCRIPT_MODE
    /\ cached_functions_to_run = CachedNone
    /\ ran = PathFunctions \o <<"f2", "f1">>
    /\ redis.exports = [j \in 1..4 |->
                           FunctionKey((PathFunctions \o <<"f2", "f1">>)[j])]

\* the drivers that have called run_function_on_all_workers for a function
CallersOf(function) ==
    {d \in DOMAIN exporters : function \in DOMAIN exporters[d].runs}

\* how often the drivers together have written the blob of a function
TimesWritten(function) ==
    LET RECURSIVE Sum(_)
        Sum(d) == IF d = 0 THEN 0
                  ELSE CountOf(exporters[d].wrote, FunctionKey(function))
                       + Sum(d - 1)
    IN  Sum(NumDrivers)

\* C18: whatever the interleaving of the drivers that call
\* run_function_on_all_workers with the same function, the blob is never
\* written and the key never appended to Exports more than once; when all
\* calls have returned, exactly one driver has written the blob and appended
\* the key, the key occurs in Exports exactly once, and every driver has run
\* the function locally once for each of its calls.
C18_OneExporter ==
    /\ \A function \in UserFunctions :
          /\ TimesWritten(function) <= 1
          /\ TimesExported(redis, function) <= 1
    /\ (\A d \in DOMAIN exporters : exporters[d].pc = "out") =>
          /\ \A function \in UserFunctions : CallersOf(function) # {} =>
                /\ TimesExported(redis, function) = 1
                /\ FunctionKey(function) \in redis.blobs
                /\ \E d \in CallersOf(function) :
                      /\ CountOf(exporters[d].wrote, FunctionKey(function)) = 1
                      /\ CountOf(exporters[d].pushed, FunctionKey(function)) = 1
                      /\ \A e \in DOMAIN exporters \ {d} :
                            /\ CountOf(exporters[e].wrote,
                                       FunctionKey(function)) = 0
                            /\ CountOf(exporters[e].pushed,
                                       FunctionKey(function)) = 0
          /\ \A d \in DOMAIN exporters :
                LET RECURSIVE Runs(_)
                    Runs(fs) == IF fs = {} THEN 0
                                ELSE LET f == CHOOSE f \in fs : TRUE
                                     IN  exporters[d].runs[f] + Runs(fs \ {f})
                IN  Runs(DOMAIN exporters[d].runs) = exporters[d].calls

\* three drivers have called with the same function and all calls have
\* returned
C18_Witness ==
    /\ \A d \in DOMAIN exporters : exporters[d].pc = "out"
    /\ \A d \in 1..3 : CountOf(exporters[d].runs, "f1") >= 1
    /\ TimesExported(redis, "f1") = 1

\* C20: whenever the store holds the object id already, put_object returns
\* normally, whether the store said so on the first attempt or on the
\* retry after the TypeError fallback, and the value stored under the id
\* is the one that was there.
C20_ObjectExistsSwallowed ==
    (lastPutObject.before # ObjectNotAvailable
       /\ ~IsObjectID(lastPutObject.value))
    => /\ lastPutObject.exc = "none"
       /\ store[lastPutObject.object_id] = lastPutObject.before

\* the job and the type of the n-th error published
JobOf(n) == error_table[n].job_id
TypeOf(n) == error_table[n].type
ForThisDriver(n) == JobOf(n) \in {task_driver_id, NIL_JOB_ID}

\* the errors the printer thread has had in hand or will have
QueuedErrors ==
    {task_error_queue[i].error : i \in DOMAIN task_error_queue}
      \cup {elog[i].error : i \in {j \in DOMAIN elog : elog[j].by = "printer"}}
      \cup (IF printer.pc = "wait" THEN {printer.error} ELSE {})

\* the errors the listener thread has printed itself
ListenerPrinted ==
    {elog[i].error : i \in {j \in DOMAIN elog : elog[j].by = "listener"}}

\* C17: the listener acts on an error only if its job is this driver or
\* the wildcard; of those, task errors are queued and never printed by the
\* listener itself, and all others are printed by the listener and never
\* queued.
C17_ListenerFilters ==
    /\ \A n \in QueuedErrors \cup ListenerPrinted : ForThisDriver(n)
    /\ \A n \in QueuedErrors : TypeOf(n) = TASK_PUSH_ERROR
    /\ \A n \in ListenerPrinted : TypeOf(n) # TASK_PUSH_ERROR

\* C17, in the listener's loop: a message is taken off the channel; when
\* its job is neither this driver nor the wildcard nothing else happens;
\* otherwise a task error is put at the end of the queue with the time of
\* the clock and not printed, and any other error is printed by the
\* listener and not queued.  Before its loop the listener prints every
\* error the table holds under this driver's id, task errors included, and
\* queues none of them.
C17_ListenerLoopFilters ==
    [][/\ (pubsub # <<>> /\ pubsub' = Tail(pubsub)) =>
            LET msg == Head(pubsub)
            IN  IF msg.job_id \notin {task_driver_id, NIL_JOB_ID}
                THEN UNCHANGED <<task_error_queue, elog>>
                ELSE IF msg.type = TASK_PUSH_ERROR
                THEN /\ task_error_queue' =
                           Append(task_error_queue,
                                  [error |-> msg.n, t |-> now])
                     /\ elog' = elog
                ELSE /\ elog' = Append(elog,
                                       Logged(msg.n, "listener", "printed"))
                     /\ task_error_queue' = task_error_queue
       /\ (listener = "subscribed" /\ listener' = "listening") =>
            /\ task_error_queue' = task_error_queue
            /\ Len(elog') = Len(elog) +
                 Cardinality({n \in DOMAIN error_table :
                                 JobOf(n) = task_driver_id})
            /\ \A i \in (Len(elog) + 1)..Len(elog') :
                  /\ elog'[i].by = "listener"
                  /\ elog'[i].what = "printed"
                  /\ JobOf(elog'[i].error) = task_driver_id]_vars

\* the listener has dropped another driver's error, queued a task error of
\* this driver and printed a wildcard error of another type
C17_Witness ==
    /\ listener = "listening" /\ pubsub = <<>>
    /\ \E n \in DOMAIN error_table :
          /\ JobOf(n) = DriverID(2)
          /\ n \notin QueuedErrors \cup ListenerPrinted
    /\ \/ \E n \in QueuedErrors : JobOf(n) = task_driver_id
       \/ \E n \in ListenerPrinted :
             JobOf(n) = NIL_JOB_ID /\ TypeOf(n) # TASK_PUSH_ERROR

\* the printer thread has printed or suppressed the n-th error
Handled(n) ==
    \E i \in DOMAIN elog : elog[i].by = "printer" /\ elog[i].error = n

\* the n-th error waits in the queue and its grace period ends within the
\* time the clock covers
Queued(n) ==
    \E i \in DOMAIN task_error_queue :
       /\ task_error_queue[i].error = n
       /\ task_error_queue[i].t + UNCAUGHT_ERROR_GRACE_PERIOD <= MaxTime

\* some get has raised a task failure at a time r with t < r + 5
RaisedNear(t) ==
    \E r \in raise_times : t < r + UNCAUGHT_ERROR_GRACE_PERIOD

\* C16: the printer takes the events from the head of the queue; it
\* examines the event queued at time t no earlier than t + 5, suppresses it
\* exactly when some get has by then raised a task failure at a time r with
\* t < r + 5 and prints it otherwise; and every queued event is in the end
\* printed or suppressed.
C16_GracePeriod ==
    /\ [][/\ (printer.pc = "get" /\ printer'.pc = "wait") =>
               /\ task_error_queue # <<>>
               /\ printer'.error = Head(task_error_queue).error
               /\ printer'.t = Head(task_error_queue).t
               /\ task_error_queue' = Tail(task_error_queue)
               /\ elog' = elog
          /\ (printer.pc = "wait" /\ printer'.pc = "get") =>
               /\ now >= printer.t + UNCAUGHT_ERROR_GRACE_PERIOD
               /\ elog' = Append(elog,
                                 Logged(printer.error, "printer",
                                        IF RaisedNear(printer.t)
                                        THEN "suppressed" ELSE "printed"))
          /\ (\E i \in DOMAIN elog' : elog'[i].by = "printer"
                                        /\ i \notin DOMAIN elog)
               => printer.pc = "wait" /\ printer'.pc = "get"]_vars
    /\ \A n \in 1..MaxMessages : Queued(n) ~> Handled(n)

\* a get has raised; the printer has suppressed an event queued less than
\* five seconds after the raise and has printed a later one
C16_Witness ==
    /\ raise_times # {}
    /\ \E i, j \in DOMAIN elog :
          /\ i < j
          /\ elog[i].by = "printer" /\ elog[i].what = "suppressed"
          /\ elog[j].by = "printer" /\ elog[j].what = "printed"

\* C21: a put of an ObjectID raises, writes nothing to the object store and
\* leaves put_index as it was, and so does a put_object of an ObjectID.
C21_PutOfObjectIDRaises ==
    [][/\ Put(AnObjectID) =>
            /\ last'.exc # "none"
            /\ store' = store
            /\ put_index' = put_index
       /\ (\E object_id \in PutObjectIDs : PutObject(object_id, AnObjectID)) =>
            /\ lastPutObject'.exc # "none"
            /\ store' = store
            /\ put_index' = put_index]_vars

\* C21, mode by mode: a put of an ObjectID by a process that is not
\* connected raises RayConnectionError, in SCRIPT_MODE and WORKER_MODE it
\* raises the exception of put_object, and in LOCAL_MODE it returns the
\* ObjectID; a put_object of an ObjectID raises.  None of them writes to the
\* object store or to the serialization contexts, or changes put_index.
C21_PutOfObjectIDByMode ==
    [][/\ Put(AnObjectID) =>
            /\ last'.exc = IF ~connected THEN "RayConnectionError"
                           ELSE IF mode = LOCAL_MODE THEN "none"
                           ELSE "Exception"
            /\ last'.res = IF connected /\ mode = LOCAL_MODE
                           THEN <<AnObjectID>> ELSE <<>>
            /\ UNCHANGED <<store, serialization_context_map, put_index, puts>>
       /\ (\E object_id \in PutObjectIDs : PutObject(object_id, AnObjectID)) =>
            /\ lastPutObject'.exc = "Exception"
            /\ UNCHANGED <<store, serialization_context_map, put_index,
                           puts>>]_vars

\* the body of a task has put a value and then an ObjectID, and put_object
\* has been called with an ObjectID
C21_Witness ==
    /\ last.op = "put" /\ last.ids = <<AnObjectID>>
    /\ last.mode = WORKER_MODE
    /\ last.exc = "Exception"
    /\ last.put_index = 2
    /\ lastPutObject.value = AnObjectID /\ lastPutObject.exc = "Exception"

\* the positions of a list of ids whose objects the store holds as bytes it
\* cannot deserialize
InvalidAt(object_ids) ==
    {i \in DOMAIN object_ids : Holds(object_ids[i], BadBytes)}

\* retrieve_and_deserialize answers a list with invalid bytes in it by one
\* "worker died or was killed" failure per id, and the get_object call that
\* made the request stops waiting
RetrieveOfInvalid ==
    /\ \A object_ids \in SeqsUpTo(ExternalIDs, MaxLen) :
          InvalidAt(object_ids) # {} =>
             retrieve_and_deserialize(CurEnv, object_ids) =
                [i \in DOMAIN object_ids |-> invalid_error]
    /\ (GetObjectRetrieve /\ InvalidAt(go.ids) # {}) => go'.pc = "done"
    /\ (GetObjectLoop /\ InvalidAt(KeyList(DOMAIN go.unready)) # {})
          => go'.pc = "done"

\* C22: when the store holds invalid bytes for an object a get asks for,
\* retrieve_and_deserialize returns the "worker died or was killed" failure
\* for every id of the request, and the get raises that failure.
C22_InvalidBytesRaise ==
    [][/\ RetrieveOfInvalid
       /\ (GetReturns /\ InvalidAt(go.ids) # {}) =>
             /\ last'.exc = "RayTaskError"
             /\ last'.res = <<invalid_error>>]_vars

\* the positions of the result list at which get_object has recorded the
\* "worker died or was killed" failure: every position when the immediate
\* retrieve met the invalid bytes, and otherwise, for each id of the failing
\* request, the position unready_ids keeps for it, its last one in the list
RecordedInvalid == {i \in DOMAIN go.final : go.final[i] = invalid_error}

\* C22, with the order of the list: the get raises a task failure, which is
\* the "worker died or was killed" failure unless a position of the list
\* before every position where that failure was recorded holds the failure
\* of its own task, which an earlier request of the same get has fetched;
\* then that one is raised.
C22_InvalidBytesRaiseFirst ==
    [][/\ RetrieveOfInvalid
       /\ (GetReturns /\ InvalidAt(go.ids) # {}) =>
             /\ RecordedInvalid # {}
             /\ last'.exc = "RayTaskError"
             /\ \/ last'.res = <<invalid_error>>
                \/ \E j \in DOMAIN go.ids :
                      /\ \A i \in RecordedInvalid : j < i
                      /\ IsRayTaskError(store[go.ids[j]])
                      /\ last'.res = <<store[go.ids[j]]>>]_vars

\* a get of two ids has waited for the second one, which arrived with
\* invalid bytes, and has raised the "worker died or was killed" failure
C22_Witness ==
    /\ last.op = "get" /\ Len(last.ids) = 2
    /\ last.exc = "RayTaskError" /\ last.res = <<invalid_error>>
    /\ Holds(last.ids[1], Value("val", 1))
    /\ Holds(last.ids[2], BadBytes)
    /\ blocked = {} /\ go.pc = "off"


(***************************************************************************)
(* C24: when the version check fails during connect, a driver's connect    *)
(* raises to the caller at once (nothing is published, no store or raylet  *)
(* client is made, no thread is started, nothing is exported), and a       *)
(* worker's connect publishes one version-mismatch error for no driver in  *)
(* particular and completes as a connect whose check passed: the worker is *)
(* connected, holds its clients and waits for a task.                      *)
(***************************************************************************)
C24_VersionMismatch ==
    [][\A m \in {SCRIPT_MODE, WORKER_MODE} :
          ConnectVersionMismatch(m) =>
             IF m = SCRIPT_MODE
             THEN /\ lastSession'.exc = "Exception"
                  /\ pc' = "raised"
                  /\ UNCHANGED <<error_table, pubsub, raylet_client,
                                 plasma_client, listener, printer, redis, ran>>
             ELSE /\ lastSession'.exc = "none"
                  /\ Len(error_table') = Len(error_table) + 1
                  /\ SubSeq(error_table', 1, Len(error_table)) = error_table
                  /\ error_table'[Len(error_table')].type =
                        VERSION_MISMATCH_PUSH_ERROR
                  /\ error_table'[Len(error_table')].job_id = NIL_JOB_ID
                  /\ connected' /\ mode' = WORKER_MODE
                  /\ pc' = "idle"
                  /\ raylet_client' = "connected"
                  /\ plasma_client' = "connected"
                  /\ current_task_id' = NIL_ID
                  /\ cached_functions_to_run'.none]_vars

\* a worker that met the version mismatch has run a task to its end
C24_Witness ==
    /\ lastSession.op = "connect"
    /\ mode = WORKER_MODE
    /\ Len(error_table) = 1
    /\ error_table[1].type = VERSION_MISMATCH_PUSH_ERROR
    /\ ntasks >= 1
    /\ pc = "idle"


(***************************************************************************)
(* C23: two driver sessions connected with the same object_id_seed have    *)
(* the same driver task id, and as long as they have made the same calls   *)
(* of put and submit_task they have obtained the same object ids from them.*)
(***************************************************************************)
SameCalls(a, b, k) ==
    /\ k <= Len(a.calls) /\ k <= Len(b.calls)
    /\ \A n \in 1..k : /\ a.calls[n].op = b.calls[n].op
                       /\ a.calls[n].args = b.calls[n].args

C23_SeedDeterminism ==
    \A i, j \in DOMAIN sessions :
        (sessions[i].seed # NoSeed /\ sessions[i].seed = sessions[j].seed)
            => /\ sessions[i].task_id = sessions[j].task_id
               /\ \A k \in 1..Len(sessions[i].calls) :
                     SameCalls(sessions[i], sessions[j], k)
                        => sessions[i].calls[k].res = sessions[j].calls[k].res


(***************************************************************************)
(* C29: no two tasks handed to the raylet by one process carry the same    *)
(* pair of parent task id and task_index, however the submit_task calls of *)
(* the threads interleave with the start and the reset of the main loop's  *)
(* tasks.                                                                  *)
(***************************************************************************)
C29_UniqueParentCounter ==
    \A i, j \in DOMAIN submitted :
        i # j => <<submitted[i].parent_task_id, submitted[i].parent_counter>>
                 # <<submitted[j].parent_task_id, submitted[j].parent_counter>>

(***************************************************************************)
(* C30: every task handed to the raylet carries a parent task id that is   *)
(* not NIL, and a call of submit_task made while current_task_id is NIL    *)
(* hands nothing to the raylet.                                            *)
(***************************************************************************)
C30_ParentNotNil ==
    /\ [](\A i \in DOMAIN submitted : submitted[i].parent_task_id # NIL_ID)
    /\ [][/\ \A t \in 1..NumThreads :
                (SubmitCapture(t) /\ current_task_id = NIL_ID)
                    => (submitted' = submitted /\ subs'[t].pc = "out")
          /\ \A args \in SubmitArgs, resources \in ResourceMaps :
                (SubmitTask(args, resources) /\ current_task_id = NIL_ID)
                    => submitted' = submitted]_vars


(***************************************************************************)
(* C25: in WORKER mode task_driver_id and current_task_id are both NIL     *)
(* exactly when the worker is not processing a task, and the four          *)
(* assertions at the start of _process_task hold for every task the main   *)
(* loop receives, whatever earlier tasks did and whatever calls of put and *)
(* submit_task other threads have made.                                    *)
(***************************************************************************)
Processing ==
    pc \in {"process", "arguments", "execute", "body", "store", "returned"}

C25_StartAssertionsHold ==
    /\ []((mode = WORKER_MODE /\ pc = "idle")
             => (task_driver_id = NIL_ID /\ current_task_id = NIL_ID))
    /\ []((mode = WORKER_MODE /\ Processing)
             => (task_driver_id # NIL_ID /\ current_task_id # NIL_ID))
    /\ [][\A t \in ApiTasks(ntasks + 1, actor_id) :
             GetTask(t) => (StartAssertions /\ pc' = "process")]_vars


(***************************************************************************)
(* C27: every get_object call that returns has called notify_unblocked     *)
(* exactly once, with the task id of its blocking fetch requests and after *)
(* the last of them.                                                       *)
(***************************************************************************)
NotifiedOnce(g) ==
    /\ g.notifies = 1
    /\ g.fetch_tasks \subseteq {g.notified}
    /\ g.last = "notify"

C27_NotifiedExactlyOnce ==
    \A t \in 1..NumThreads : gets[t].pc = "returned" => NotifiedOnce(gets[t])

\* C27 as the code has it: a call that returns after its immediate retrieve
\* left something missing has made blocking fetch requests and then called
\* notify_unblocked exactly once, with the task id of those requests; a call
\* whose immediate retrieve found everything has made neither
C27_NotifiedOnceIfMissing ==
    \A t \in 1..NumThreads :
        gets[t].pc = "returned" =>
            IF gets[t].missing
            THEN /\ NotifiedOnce(gets[t])
                 /\ gets[t].fetches >= 1
                 /\ gets[t].fetch_tasks = {gets[t].notified}
            ELSE gets[t].notifies = 0 /\ gets[t].fetches = 0

\* a call returns that waited two rounds for its objects
C27_Witness ==
    \E t \in 1..NumThreads :
        /\ gets[t].pc = "returned"
        /\ gets[t].missing
        /\ gets[t].fetches = MaxFetches
        /\ Len(gets[t].ids) = MaxLen

(***************************************************************************)
(* C28: at no time do two threads of the process both have a blocking      *)
(* fetch outstanding (issued and not yet followed by the thread's          *)
(* notify_unblocked); the fetch loop and notify_unblocked run with the     *)
(* state lock held.                                                        *)
(***************************************************************************)
Outstanding(t) == gets[t].fetches > 0 /\ gets[t].notifies = 0

C28_OneBlockedThread ==
    /\ \A t, u \in 1..NumThreads : (Outstanding(t) /\ Outstanding(u)) => t = u
    /\ \A t \in 1..NumThreads :
          gets[t].pc \in {"loop", "notify"} => state_lock = "held"
    /\ \A t, u \in 1..NumThreads :
          (gets[t].pc \in {"loop", "notify"} /\ gets[u].pc \in {"loop", "notify"})
              => t = u

\* one thread has a blocking fetch outstanding while another waits for the
\* state lock
C28_Witness ==
    \E t, u \in 1..NumThreads :
        /\ t # u
        /\ Outstanding(t) /\ gets[t].pc = "loop"
        /\ gets[u].pc = "lock"


(***************************************************************************)
(* C26: in WORKER mode the main loop holds the execution lock from the     *)
(* setting of the task identity to the reset of the per-task state, except *)
(* during its back-off sleeps on a missing class, and the import thread    *)
(* never holds the execution lock while a task body is running.            *)
(***************************************************************************)
C26_ExecutionLockHeld ==
    /\ (mode = WORKER_MODE /\ Processing) => lock \notin {"free", "import"}
    /\ (mode = WORKER_MODE /\ pc = "body") => import_thread.pc # "importing"

(***************************************************************************)
(* C31: the task id passed to a blocking fetch_or_reconstruct, to          *)
(* notify_unblocked or to raylet_client.wait is never NIL; on the main     *)
(* thread it is current_task_id, and on any other thread it is a random id *)
(* made for that call, different from current_task_id and from the ids of  *)
(* the other threads.                                                      *)
(***************************************************************************)
\* the task ids the call of thread t in hand has passed to the raylet
PassedTaskIDs(t) ==
    gets[t].fetch_tasks
        \cup (IF gets[t].notifies > 0 THEN {gets[t].notified} ELSE {})
        \cup (IF gets[t].last = "wait" THEN {gets[t].task} ELSE {})

C31_BlockedTaskIdNotNil ==
    /\ NIL_ID \notin blocked
    /\ \A t \in 1..NumThreads :
          /\ NIL_ID \notin PassedTaskIDs(t)
          /\ IF is_main_thread(t)
             THEN PassedTaskIDs(t) \subseteq {current_task_id}
             ELSE /\ PassedTaskIDs(t) \subseteq {RandomTaskID(t, gets[t].n)}
                  /\ current_task_id \notin PassedTaskIDs(t)
                  /\ \A u \in 1..NumThreads \ {t} :
                        PassedTaskIDs(t) \cap PassedTaskIDs(u) = {}

\* a thread other than the main one has passed its id to a blocking fetch
\* and to wait while the worker had no task, and the main thread has passed
\* the id of its task
C31_Witness ==
    /\ mode = WORKER_MODE
    /\ \E t \in 1..NumThreads :
          /\ ~is_main_thread(t)
          /\ current_task_id = NIL_ID
          /\ gets[t].fetch_tasks # {}
          /\ gets[t].notifies > 0

(***************************************************************************)
(* C32: while the class of an object is missing, retrieve_and_deserialize  *)
(* keeps retrying: it raises nothing, it returns results only once the     *)
(* class is there, whatever time has passed, and it pushes the warning to  *)
(* the driver at most once per call and only after error_timeout.          *)
(***************************************************************************)
C32_RetriesWithoutRaising ==
    /\ backoff.exc = "none"
    /\ backoff.returned => ~ClassMissing
    /\ backoff.warnings <= 1
    /\ backoff.warnings = 1 =>
          backoff.warned_at - backoff.start_time > backoff.error_timeout

(***************************************************************************)
(* C33: store_and_register terminates.  Each put that reports a class      *)
(* without a serializer is followed by the registration of that class,     *)
(* tried as use_dict, then as use_pickle, then as use_pickle with          *)
(* local=True, the last only for a class whose use_pickle registration     *)
(* failed with CloudPickleError, and then by another put; at most depth    *)
(* puts are made, and a call that has made depth puts without success ends *)
(* with an Exception.                                                      *)
(***************************************************************************)
\* what may follow event a in the log: a put is followed by the use_dict
\* registration of a class, a registration by the next one of the cascade
\* for the same class or by a put
Follows(a, b, classes) ==
    CASE a.op = "put" -> b.op = "use_dict"
      [] a.op = "use_dict" ->
            \/ b.op = "put" /\ classes[a.cls] = "dict"
            \/ b = Event("use_pickle", a.cls) /\ classes[a.cls] # "dict"
      [] a.op = "use_pickle" ->
            \/ b.op = "put" /\ classes[a.cls] = "pickle"
            \/ b = Event("use_pickle_local", a.cls) /\ classes[a.cls] = "local"
      [] OTHER -> b.op = "put"

Puts(log) == Cardinality({i \in DOMAIN log : log[i].op = "put"})

RegisterCascade ==
    LET c == lastPutObject
    IN  /\ \A i \in 1..(Len(c.log) - 1) :
              Follows(c.log[i], c.log[i + 1], c.classes)
        /\ c.log # <<>> => c.log[1].op = "put"
        /\ Puts(c.log) = c.counter
        /\ c.counter <= c.depth
        /\ (c.pc = "out" /\ c.depth > 0) =>
              /\ c.exc = "Exception" <=>
                    (c.counter = c.depth /\ c.log[Len(c.log)].op # "put")
              /\ c.exc = "none" =>
                    /\ c.log[Len(c.log)].op = "put"
                    /\ c.registered = DOMAIN c.classes

C33_StoreAndRegisterTerminates ==
    /\ []RegisterCascade
    /\ (lastPutObject.pc # "out") ~> (lastPutObject.pc = "out")

\* a call has ended with the Exception of the depth test after registering
\* a class in each of the three ways
C33_Witness ==
    /\ lastPutObject.pc = "out"
    /\ lastPutObject.exc = "Exception"
    /\ lastPutObject.counter = MaxDepth
    /\ \E i \in DOMAIN lastPutObject.log :
          lastPutObject.log[i].op = "use_pickle_local"
    /\ \E i \in DOMAIN lastPutObject.classes :
          lastPutObject.classes[i] = "dict"

(***************************************************************************)
(* C34: every key of the Exports list has its blob in the control plane:   *)
(* a driver writes the blob of a function before it appends the key, so    *)
(* whoever replays Exports finds the blob of every key it reads.           *)
(***************************************************************************)
C34_BlobBeforeExport ==
    /\ \A i \in DOMAIN redis.exports : redis.exports[i] \in redis.blobs
    /\ \A d \in 1..NumDrivers :
          exporters[d].pc = "written" =>
              FunctionKey(exporters[d].function) \in redis.blobs

\* one key is in Exports while another driver has written the blob of a
\* second function and not yet appended its key
C34_Witness ==
    /\ redis.exports # <<>>
    /\ \E d \in 1..NumDrivers :
          /\ exporters[d].pc = "written"
          /\ FunctionKey(exporters[d].function) \notin Range(redis.exports)

(***************************************************************************)
(* C35: get_object returns only when none of the ids asked for is unready, *)
(* each of them having been retrieved from the local store; and if every   *)
(* object asked for arrives in the local store, every call of get_object   *)
(* returns, the state lock being released.                                 *)
(***************************************************************************)
InsideGetObject(t) == gets[t].pc \in {"retrieve", "lock", "loop", "notify"}

ReturnsAllReady ==
    /\ \A t \in 1..NumThreads :
          gets[t].pc = "returned" =>
              /\ DOMAIN gets[t].unready = {}
              /\ \A id \in Range(gets[t].ids) :
                    /\ id \in DOMAIN store
                    /\ \E i \in DOMAIN gets[t].ids :
                          /\ gets[t].ids[i] = id
                          /\ gets[t].final[i] # ObjectNotAvailable
    /\ state_lock = "held" =>
          \E t \in 1..NumThreads : gets[t].pc \in {"loop", "notify"}

C35_GetObjectReturns ==
    /\ []ReturnsAllReady
    /\ \A t \in 1..NumThreads :
          InsideGetObject(t) ~> (gets[t].pc = "returned")
    /\ (state_lock = "held") ~> (state_lock = "free")

\* a call returns that held the state lock through two rounds while another
\* thread waited for the lock
C35_Witness ==
    \E t, u \in 1..NumThreads :
        /\ t # u
        /\ gets[t].pc = "returned"
        /\ gets[t].fetches = MaxFetches
        /\ gets[u].pc = "lock"

(***************************************************************************)
(* C36: while the worker stays connected, get_serialization_context        *)
(* returns the same context for the same driver id and different contexts  *)
(* for different driver ids, and makes a context for a driver id on its    *)
(* first use only; disconnect discards every context, so the contexts of   *)
(* a connection were all made after the disconnect before it.              *)
(***************************************************************************)
C36_ContextPerDriver ==
    /\ \A i, j \in DOMAIN contexts.returned :
          (contexts.returned[i].driver_id = contexts.returned[j].driver_id)
              <=> (contexts.returned[i].context = contexts.returned[j].context)
    /\ \A i, j \in DOMAIN contexts.created :
          contexts.created[i] = contexts.created[j] => i = j
    /\ \A d \in DOMAIN contexts.of : contexts.of[d] > contexts.base
    /\ ~connected => serialization_context_map = <<>> /\ contexts.of = <<>>

(***************************************************************************)
(* C37: the execution lock is released only by the thread that holds it:   *)
(* the back-off of retrieve_and_deserialize on a missing class releases    *)
(* the lock only when its caller is the holder, never while the main loop  *)
(* holds it for a task and the caller is another thread.                   *)
(***************************************************************************)
C37_ReleasedByHolder ==
    [][(RetrieveTry /\ lock # lock') => lock = backoff.caller]_vars

(***************************************************************************)
(* C38: a connect that raises leaves the worker not connected and with no  *)
(* mode, and an init that follows it, with no shutdown in between, is not  *)
(* rejected as a second initialization: it connects the worker.            *)
(***************************************************************************)
\* the last call of the session was a connect that raised
ConnectRaised == lastSession.op = "connect" /\ lastSession.exc = "Exception"

C38_RaisedConnectLeavesNotConnected ==
    [][/\ ConnectRaised' => (~connected' /\ mode' = None)
       /\ (ConnectRaised /\ lastSession'.op = "init"
             /\ lastSession'.use_raylet # "False")
             => (lastSession'.exc = "none" /\ connected' /\ pc' = "driver"
                   /\ connections' = connections + 1)]_vars

(***************************************************************************)
(* C39: a submit_task call that the validation of resources rejects leaves *)
(* put_index and the object store as they were: no argument of the call    *)
(* has been put to the store.                                              *)
(***************************************************************************)
C39_RejectedSubmitSpillsNothing ==
    [][(/\ lastSubmit'.seq # lastSubmit.seq
        /\ Rejected(lastSubmit'.resources)
        /\ lastSubmit'.exc = ResourcesError(lastSubmit'.resources))
         => /\ put_index' = put_index
            /\ store' = store]_vars

(***************************************************************************)
(* C40: a thread that has called submit_task is never blocked forever by   *)
(* another thread of the process that waits for objects in get_object: it  *)
(* takes the state lock in the end and submit_task returns, also when the  *)
(* awaited object is made only by the task being submitted.                *)
(***************************************************************************)
C40_SubmitNotBlockedForever ==
    \A t \in 1..NumThreads : (subs[t].pc = "lock") ~> (subs[t].pc = "out")

=============================================================================
